---- MODULE Spec2Model ----
(***************************************************************************)
(* The packed-file blob store of blobstash (package blobsfile,             *)
(* BlobsFileBackend): container files blobs-NNNNN holding frames           *)
(*     hash[32] | flags[1] | size[4, little-endian] | payload[size]        *)
(* behind the 6-byte magic, the position index hash -> (n, offset, size),  *)
(* and the operations Put, Get, Stat and Delete run by concurrent callers. *)
(* Files are modelled byte by byte; every statement of a handler that      *)
(* another goroutine can observe is one step of the calling goroutine.     *)
(***************************************************************************)
EXTENDS Integers, Sequences, FiniteSets, TLC

(***************************************************************************)
(* Program constants                                                       *)
(***************************************************************************)
\* magic = "\x00Blobs"
magic == <<0, 66, 108, 111, 98, 115>>

\* 32 byte hash + 1 byte flag + 4 byte blob len
Overhead == 37

hashSize == 32

\* Blob flag Deleted = 1 << 0
Deleted == 1

\* Blob flag Compressed = 1 << 1
Compressed == 2

(***************************************************************************)
(* Bounds of the model                                                     *)
(***************************************************************************)
\* maxBlobsFileSize given to New: large enough for the frame of every blob
\* of Blobs (compressed or not) behind the magic, small enough to roll over.
MaxBlobsFileSize == 46

\* Number of Put calls in one behaviour of one caller.
MaxPuts == 3

\* Number of Put calls in one behaviour of concurrent callers.
ConcPuts == 2

\* Number of Put calls in one behaviour with scans, restarts or enumerations.
AdminPuts == 2

\* Number of payload bytes of the disk that are altered in one behaviour.
MaxFlips == 1

\* Length of the longest stream given to PutReader.
MaxStreamLen == 2

\* Number of errors other than io.EOF the reader returns in one PutReader.
MaxReadErrs == 1

\* The goroutines calling into the store.
Procs == {1, 2}

\* The PutReader calls of one behaviour, made one after the other.
Uploads == {1, 2}

\* The blobs callers store: the empty blob and a one-byte blob.
Blobs == {<<>>, <<5>>}

(***************************************************************************)
(* Byte helpers                                                            *)
(***************************************************************************)
Min(a, b) == IF a < b THEN a ELSE b

Max(a, b) == IF a < b THEN b ELSE a

\* n zero bytes
Zeros(n) == [i \in 1..n |-> 0]

\* s[from..to] with 0-based half-open Go slice bounds s[from:to]
Slice(s, from, to) == SubSeq(s, from + 1, to)

\* binary.LittleEndian.PutUint32
PutUint32(v) ==
    << v % 256, (v \div 256) % 256, (v \div 65536) % 256, (v \div 16777216) % 256 >>

\* A number no length or offset of the model comes near
Huge == 1073741824

\* binary.LittleEndian.Uint32; every value from Huge on is read as Huge
Uint32(s) ==
    IF s[4] >= 64 THEN Huge ELSE s[1] + 256 * s[2] + 65536 * s[3] + 16777216 * s[4]

(***************************************************************************)
(* blake2b.Sum256. The digest is modelled by a byte-mixing function of the *)
(* length and of every byte with its place; it is injective on the blobs   *)
(* the model reads and writes and never yields 32 zero bytes.              *)
(***************************************************************************)
\* the sum over j in lo..hi of b[j] + 1 (k = 0) or of (b[j] + 1) * j (k = 1)
RECURSIVE Mix(_, _, _, _)
Mix(b, k, lo, hi) ==
    IF lo > hi THEN 0
    ELSE IF lo = hi THEN ((b[lo] + 1) * (IF k = 0 THEN 1 ELSE lo)) % 256
    ELSE (Mix(b, k, lo, (lo + hi) \div 2) + Mix(b, k, (lo + hi) \div 2 + 1, hi)) % 256

\* byte i of the digest mixes in (b[j] + 1) * (i + 2 * j) for every j
Sum256(b) ==
    CHOOSE sum \in {[i \in 1..hashSize |->
                      (97 + 13 * i + (Len(b) % 256) * (i + 3) + i * m[1] + 2 * m[2]) % 256] :
                     m \in {<< Mix(b, 0, 1, Len(b)), Mix(b, 1, 1, Len(b)) >>}} : TRUE

\* The hashes callers name: the digests of the blobs. A hash argument is the
\* hex string of a digest; the model names it by the digest it spells.
Hashes == {Sum256(b) : b \in Blobs}

(***************************************************************************)
(* encoding/hex                                                            *)
(***************************************************************************)
\* the character of the hex digit d: "0123456789abcdef"[d]
HexDigit(d) == IF d < 10 THEN 48 + d ELSE 87 + d

\* hex.EncodeToString / fmt.Sprintf("%x", b): the characters of the string
HexEncode(b) ==
    [i \in 1..(2 * Len(b)) |->
       IF i % 2 = 1 THEN HexDigit(b[(i + 1) \div 2] \div 16)
       ELSE HexDigit(b[i \div 2] % 16)]

\* the value of the hex digit c, -1 for any other character
FromHexChar(c) ==
    IF c >= 48 /\ c <= 57 THEN c - 48
    ELSE IF c >= 97 /\ c <= 102 THEN c - 87
    ELSE IF c >= 65 /\ c <= 70 THEN c - 55
    ELSE -1

\* hex.DecodeString: [ok, out]; ok = FALSE is ErrLength or InvalidByteError
HexDecode(str) ==
    IF Len(str) % 2 = 1 \/ \E i \in 1..Len(str) : FromHexChar(str[i]) = -1
    THEN [ok |-> FALSE, out |-> <<>>]
    ELSE [ok |-> TRUE,
          out |-> [i \in 1..(Len(str) \div 2) |->
                     16 * FromHexChar(str[2 * i - 1]) + FromHexChar(str[2 * i])]]

(***************************************************************************)
(* snappy.Encode / snappy.Decode (block format)                            *)
(***************************************************************************)
\* binary.PutUvarint
RECURSIVE PutUvarint(_)
PutUvarint(v) ==
    IF v < 128 THEN <<v>> ELSE <<128 + (v % 128)>> \o PutUvarint(v \div 128)

\* binary.Uvarint: [v |-> value, n |-> bytes read], n = 0 when s ends early
RECURSIVE Uvarint(_, _, _, _)
Uvarint(s, i, shift, acc) ==
    IF i > Len(s) \/ i > 5 THEN [v |-> 0, n |-> 0]
    ELSE IF i = 5 THEN [v |-> Huge, n |-> IF s[i] < 128 THEN i ELSE 0]
    ELSE IF s[i] < 128 THEN [v |-> acc + s[i] * shift, n |-> i]
    ELSE Uvarint(s, i + 1, shift * 128, acc + (s[i] - 128) * shift)

\* emitLiteral for a literal of 1..60 bytes: tag (n-1)<<2 | tagLiteral
emitLiteral(lit) == <<(Len(lit) - 1) * 4>> \o lit

\* snappy.Encode of a source shorter than minNonLiteralBlockSize (17 bytes):
\* the uvarint of the length, then one literal, and nothing for no bytes.
snappyEncode(src) ==
    PutUvarint(Len(src)) \o (IF Len(src) = 0 THEN <<>> ELSE emitLiteral(src))

\* One copy element of decode: length bytes copied from offset back in dst,
\* byte by byte (the source may overlap what is being written).
RECURSIVE copyBack(_, _, _)
copyBack(dst, offset, length) ==
    IF length = 0 THEN dst
    ELSE copyBack(Append(dst, dst[Len(dst) - offset + 1]), offset, length - 1)

\* snappy decode loop: s read position (0-based), dst decoded so far, dLen the
\* announced length. Result [ok, out].
RECURSIVE decodeLoop(_, _, _, _)
decodeLoop(src, s, dst, dLen) ==
    IF s >= Len(src)
    THEN [ok |-> Len(dst) = dLen, out |-> dst]
    ELSE
      LET tag == src[s + 1]
          kind == tag % 4
          x == tag \div 4
      IN
      IF kind = 0
      THEN \* tagLiteral
        LET extra == IF x < 60 THEN 0 ELSE x - 59
            hdr == 1 + extra
            length ==
                IF x < 60 THEN x + 1
                ELSE IF s + hdr > Len(src) THEN -1
                ELSE 1 + Uint32(Slice(src, s + 1, s + hdr) \o Zeros(4 - extra))
        IN
        IF length <= 0 \/ length > dLen - Len(dst) \/ length > Len(src) - (s + hdr)
        THEN [ok |-> FALSE, out |-> <<>>]
        ELSE decodeLoop(src, s + hdr + length,
                        dst \o Slice(src, s + hdr, s + hdr + length), dLen)
      ELSE
        LET hdr == IF kind = 1 THEN 2 ELSE IF kind = 2 THEN 3 ELSE 5
            length == IF kind = 1 THEN 4 + (x % 8) ELSE 1 + x
            offset ==
                IF s + hdr > Len(src) THEN 0
                ELSE IF kind = 1 THEN (tag \div 32) * 256 + src[s + 2]
                ELSE IF kind = 2 THEN src[s + 2] + 256 * src[s + 3]
                ELSE Uint32(Slice(src, s + 1, s + 5))
        IN
        IF s + hdr > Len(src) \/ offset <= 0 \/ Len(dst) < offset
           \/ length > dLen - Len(dst)
        THEN [ok |-> FALSE, out |-> <<>>]
        ELSE decodeLoop(src, s + hdr, copyBack(dst, offset, length), dLen)

\* snappy.Decode(nil, src): [ok, out]; ok = FALSE is ErrCorrupt
snappyDecode(src) ==
    LET u == Uvarint(src, 1, 1, 0)
    IN IF u.n = 0 THEN [ok |-> FALSE, out |-> <<>>]
       ELSE decodeLoop(src, u.n, <<>>, u.v)

(***************************************************************************)
(* State                                                                   *)
(***************************************************************************)
VARIABLES
    snappyCompression, \* BlobsFileBackend.snappyCompression
    disk,              \* the files blobs-k of the directory: k -> its bytes
    n,                 \* BlobsFileBackend.n
    current,           \* BlobsFileBackend.current: [file, pos] of the handle
    size,              \* BlobsFileBackend.size
    files,             \* BlobsFileBackend.files: the k with a read handle
    index,             \* BlobsIndex: hash -> position record
    indexN,            \* BlobsIndex: the persisted counter n
    mutex,             \* BlobsFileBackend.Mutex: its holder, or Free
    pc,                \* per goroutine: where it stands in its call
    hash,              \* per goroutine: the hash argument of its call
    data,              \* per goroutine: the data argument of its Put
    blobPos,           \* per goroutine: the local blobPos of Get and Delete
    f,                 \* per goroutine: the local f of Delete
    ret,               \* per goroutine: what its last call returned
    rolledFrom,        \* per goroutine: backend.n before its Put rolled over
    budget,            \* number of Put calls still to be made
    acked,             \* per hash: the last call on it that the store acknowledged
    expect,            \* per goroutine: acked of its hash when its Get began
    faulty,            \* a Put or a Delete has returned an error or panicked
    rpos,              \* read handles that were read from: k -> the file position
    enum,              \* what the last Enumerate / Enumerate2 sent on its channel
    altered,           \* the position records whose payload was altered on disk
    flips,             \* number of bytes of the disk still to be altered
    ns,                \* per replica: the hashes of its namespace (nsdb)
    tree,              \* per replica: the State stateHandler answered with, and what it read
    posted,            \* the State in the body of the POST of client.Sync
    resp,              \* the response of syncHandler to that POST
    stc,               \* SyncTableClient.Sync: where it stands, and its locals
    bs,                \* Uploader.bs: the blobs of the store the file writer puts to
    wr,                \* Uploader.PutReader / writeReader: where it stands, and its locals
    ch,                \* the channel of a running Enumerate, its goroutine and its receiver
    ftx,               \* FileTreeExt: the FS entry of the kv store, the last request and its response
    app,               \* App.serve: the last request and what became of it
    pl                 \* client BlobStore in pipeline mode: its callers, workers and WaitGroup

\* what scan, Enumerate and a failing disk add to the store
adminVars == << rpos, enum, altered, flips >>

\* the sync table of each replica
syncVars == << posted, resp, stc >>

treeVars == << ns, tree, syncVars >>

\* the file writer and its store
writerVars == << bs, wr >>

\* a running Enumerate and the channel it sends on
chanVars == << ch >>

\* the filetree extension, the apps and the client in front of the stores
frontVars == << ftx, app, pl >>

vars == << snappyCompression, disk, n, current, size, files, index, indexN, mutex,
           pc, hash, data, blobPos, f, ret, rolledFrom, budget, acked, expect, faulty,
           adminVars, treeVars, writerVars, chanVars, frontVars >>

Free == 0

NoHash == <<>>

\* a nil *BlobPos
NilPos == [n |-> -1, offset |-> 0, size |-> 0]

\* a nil *os.File
NilFile == [file |-> -1, own |-> FALSE]

\* no call has returned yet
NoRet == "none"

NoAck == [kind |-> "none", blob |-> <<>>]

\* The replicas that exchange their State
Replicas == {1, 2}

\* no Enumerate is in progress: nothing is on a channel
NoEnum == [call |-> "none", start |-> <<>>, end |-> <<>>, limit |-> 0, blobs |-> <<>>]

\* a RawNode without refs
NoMeta == [Size |-> 0, ContentHash |-> <<>>, Refs |-> <<>>, Hash |-> <<>>]

\* the zero Chunk
NoChunk == [Data |-> <<>>, Length |-> 0]

\* PutReader was not called. input: the bytes the reader holds; rest: those
\* not read yet; fullHash: the bytes the tee wrote to the hash; readErr: Next
\* returned an error other than io.EOF; failed: the store call that returned
\* an error (the locals are gone then); puts: the Put calls made, with what
\* Stat had returned; calls counts the PutReader calls and errs the read
\* errors of the call
NoWrite == [pc |-> "idle", input |-> <<>>, rest |-> <<>>, fullHash |-> <<>>, size |-> 0,
            chunk |-> NoChunk, chunkHash |-> <<>>, exists |-> FALSE, meta |-> NoMeta,
            mhash |-> <<>>, mjs |-> <<>>, ret |-> NoRet, readErr |-> FALSE,
            failed |-> "none", puts |-> {}, calls |-> 0, errs |-> 0]

\* the replica whose triggerHandler runs client.Sync, and the replica whose
\* syncHandler answers
Client == 1

Server == 2

\* nothing was posted
NoState == [root |-> <<>>, count |-> 0, leafs |-> << >>]

\* no response was written
NoResp == [code |-> 0, body |-> << >>, local |-> NoState]

\* the body of a response without content
NoBody == << >>

\* a decoded SyncResp with nil lists
NoSyncResp == [Conflicted |-> <<>>, Needed |-> <<>>, Missing |-> <<>>]

\* no Sync was started. before: the namespaces when Sync was called; sr the
\* decoded response; todo the prefixes of sr.Missing still to come; asked
\* the prefixes Leafs was called for; err whether Sync returned an error
NoSync == [pc |-> "idle", before |-> << >>, sr |-> NoSyncResp, todo |-> <<>>,
           asked |-> <<>>, err |-> FALSE]

\* no State has been built from the namespace as it is
NoTree == [built |-> FALSE, read |-> <<>>, root |-> <<>>, count |-> 0, leafs |-> << >>]

\* the goroutine that runs Enumerate, as holder of the mutex
Enumerator == 3

\* no Enumerate is running: pc is where the goroutine stands, keys the keys
\* enum.Next() still returns, recv what the receiver has read from the channel,
\* stopped whether the receiver has given up reading
NoChan == [pc |-> "idle", keys |-> <<>>, recv |-> <<>>, stopped |-> FALSE]

\* a response that was not written
NoReply == [status |-> 0, type |-> <<>>, body |-> <<>>, panic |-> FALSE]

\* the filetree extension before any request: no FS entry in the kv store.
\* Ref is FS.Ref of that entry; method, path and hash are the last request,
\* reply its response; found, chain, old and node are what Path and Update
\* left in memory during the last POST
NoFs == [Ref |-> <<>>, posts |-> 0, method |-> "", path |-> <<>>, hash |-> <<>>,
         reply |-> NoReply, found |-> FALSE, chain |-> <<>>, old |-> <<>>, node |-> <<>>]

\* no request has reached App.serve
NoApp == [served |-> FALSE, path |-> <<>>, kind |-> "", authed |-> FALSE, clean |-> <<>>,
          reply |-> NoReply, handed |-> "none"]

\* the client BlobStore after NewBlobStore: pc is where its caller stands, wg
\* the counter of the WaitGroup, calls the Put calls made, direct the blobs
\* uploaded by Put itself, returned the Put calls that returned in pipeline
\* mode, taken the blobs workers received, uploading the workers inside
\* bs.put, finishing the workers between bs.put and wg.Done, uploaded the
\* blobs workers have uploaded, crashed a panic of a worker
NoPipe == [pipeline |-> FALSE, pc |-> "idle", wg |-> 0, calls |-> 0, direct |-> 0, stored |-> 0,
           returned |-> 0, taken |-> 0, uploading |-> 0, finishing |-> 0,
           uploaded |-> 0, crashed |-> FALSE]

(***************************************************************************)
(* Frames                                                                  *)
(***************************************************************************)
\* BlobsFileBackend.encodeBlob: [size, data]
encodeBlob(blob) ==
    LET sum == Sum256(blob)
        stored == IF snappyCompression THEN snappyEncode(blob) ELSE blob
    IN [size |-> Len(stored),
        data |-> sum \o <<0>> \o PutUint32(Len(stored)) \o stored]

\* copy(make([]byte, size), src)
CopyInto(sz, src) == [i \in 1..sz |-> IF i <= Len(src) THEN src[i] ELSE 0]

\* BlobsFileBackend.decodeBlob: [panic, size, blob]. A size field above the
\* bytes read makes blob longer than any blob a frame was ever written for
\* (compressed, longer than the encoding of any): its digest equals no hash
\* field, so the frame is decided without building the slice.
decodeBlob(d) ==
    LET sz == Uint32(Slice(d, hashSize + 1, Overhead))
        raw == CopyInto(sz, Slice(d, Overhead, Len(d)))
        dec == IF snappyCompression THEN snappyDecode(raw) ELSE [ok |-> TRUE, out |-> raw]
    IN IF sz > Len(d) THEN [panic |-> TRUE, size |-> sz, blob |-> <<>>]
       ELSE IF ~dec.ok THEN [panic |-> TRUE, size |-> sz, blob |-> <<>>]
       ELSE IF Sum256(dec.out) # Slice(d, 0, hashSize)
       THEN [panic |-> TRUE, size |-> sz, blob |-> <<>>]
       ELSE [panic |-> FALSE, size |-> sz, blob |-> dec.out]

(***************************************************************************)
(* Files                                                                   *)
(***************************************************************************)
\* (*os.File).Write / WriteAt of bytes b at offset off of a file holding old:
\* a write behind the end leaves zero bytes in between.
WriteBytes(old, off, b) ==
    LET newLen == Max(Len(old), off + Len(b))
    IN [i \in 1..newLen |->
          IF i > off /\ i <= off + Len(b) THEN b[i - off]
          ELSE IF i <= Len(old) THEN old[i] ELSE 0]

\* (*os.File).ReadAt of len bytes at offset off: the bytes read (fewer than
\* len, with io.EOF, at the end of the file)
ReadAt(old, off, len) ==
    IF off >= Len(old) THEN <<>> ELSE SubSeq(old, off + 1, Min(Len(old), off + len))

\* fileutil.PunchHole(f, off, len) where it succeeds: the range reads as
\* zero bytes, the file keeps its size.
PunchHole(old, off, len) ==
    [i \in 1..Len(old) |-> IF i > off /\ i <= off + len THEN 0 ELSE old[i]]

(***************************************************************************)
(* BlobsIndex                                                              *)
(***************************************************************************)
\* BlobsIndex.GetPos
GetPos(h) == IF h \in DOMAIN index THEN index[h] ELSE NilPos

\* BlobsIndex.SetPos
SetPos(h, pos) == [k \in DOMAIN index \cup {h} |-> IF k = h THEN pos ELSE index[k]]

\* BlobsIndex.DeletePos
DeletePos(h) == [k \in DOMAIN index \ {h} |-> index[k]]

\* BlobsFileBackend.Exists
Exists(h) == GetPos(h) # NilPos

(***************************************************************************)
(* Loaded: the backend New returns for an empty directory. load finds no     *)
(* blobs file, creates blobs-00000 with the magic (wopen), opens it for    *)
(* read (ropen) and saves n.                                               *)
(***************************************************************************)
Loaded ==
    /\ snappyCompression \in BOOLEAN
    /\ disk = (0 :> magic)
    /\ n = 0
    /\ current = [file |-> 0, pos |-> Len(magic)]
    /\ size = Len(magic)
    /\ files = {0}
    /\ index = << >>
    /\ indexN = 0
    /\ mutex = Free
    /\ pc = [p \in Procs |-> "idle"]
    /\ hash = [p \in Procs |-> NoHash]
    /\ data = [p \in Procs |-> <<>>]
    /\ blobPos = [p \in Procs |-> NilPos]
    /\ f = [p \in Procs |-> NilFile]
    /\ ret = [p \in Procs |-> NoRet]
    /\ rolledFrom = [p \in Procs |-> -1]
    /\ acked = [h \in Hashes |-> NoAck]
    /\ expect = [p \in Procs |-> NoAck]
    /\ faulty = FALSE
    /\ rpos = << >>
    /\ enum = NoEnum
    /\ altered = {}
    /\ flips = MaxFlips
    /\ ns = [t \in Replicas |-> {}]
    /\ tree = [t \in Replicas |-> NoTree]
    /\ posted = NoState
    /\ resp = NoResp
    /\ stc = NoSync
    /\ bs = << >>
    /\ wr = NoWrite
    /\ ch = NoChan
    /\ ftx = NoFs
    /\ app = NoApp
    /\ pl = NoPipe

\* One caller makes up to MaxPuts Put calls
Init == Loaded /\ budget = MaxPuts

\* Concurrent callers make up to ConcPuts Put calls between them
InitConc == Loaded /\ budget = ConcPuts

\* One caller makes up to AdminPuts Put calls and scans, restarts, enumerates
InitAdmin == Loaded /\ budget = AdminPuts

\* The handlers and the client in front of the stores: the compression of the
\* blobs files plays no part in them
InitFront == InitAdmin /\ ~snappyCompression

(***************************************************************************)
(* Returning from a call                                                   *)
(***************************************************************************)
\* p's call returns kind; its arguments and locals are gone
Return(p, kind) ==
    /\ ret' = [ret EXCEPT ![p] = kind]
    /\ pc' = [pc EXCEPT ![p] = "idle"]
    /\ hash' = [hash EXCEPT ![p] = NoHash]
    /\ data' = [data EXCEPT ![p] = <<>>]
    /\ blobPos' = [blobPos EXCEPT ![p] = NilPos]
    /\ f' = [f EXCEPT ![p] = NilFile]
    /\ rolledFrom' = [rolledFrom EXCEPT ![p] = -1]

\* p goes on to the statement at label
Goto(p, label) ==
    /\ pc' = [pc EXCEPT ![p] = label]
    /\ UNCHANGED << frontVars, chanVars, writerVars, hash, data, ret >>

(***************************************************************************)
(* Put (hash, data)                                                        *)
(***************************************************************************)
\* Put is called. A caller that stores other data under h than the store
\* has acknowledged ends what the store promised about h.
PutCall(p, h, b) ==
    /\ pc[p] = "idle"
    /\ budget > 0
    /\ budget' = budget - 1
    /\ pc' = [pc EXCEPT ![p] = "put_lock"]
    /\ hash' = [hash EXCEPT ![p] = h]
    /\ data' = [data EXCEPT ![p] = b]
    /\ ret' = [ret EXCEPT ![p] = NoRet]
    /\ acked' = [acked EXCEPT ![h] = IF @.kind = "put" /\ @.blob # b THEN NoAck ELSE @]
    /\ expect' = [q \in Procs |->
                    IF hash[q] = h /\ expect[q].blob # b THEN NoAck ELSE expect[q]]
    /\ UNCHANGED << frontVars, chanVars, writerVars, treeVars, adminVars, snappyCompression, disk, n, current, size, files, index, indexN,
                    mutex, blobPos, f, rolledFrom, faulty >>

\* "Ensure the blosfile size won't exceed the maxBlobsFileSize"
NeedsRollover(blobSize) == size + blobSize > MaxBlobsFileSize

\* backend.Lock(), encodeBlob and the size check
PutLock(p) ==
    /\ pc[p] = "put_lock"
    /\ mutex = Free
    /\ mutex' = p
    /\ Goto(p, IF NeedsRollover(encodeBlob(data[p]).size) THEN "put_incn" ELSE "put_setpos")
    /\ UNCHANGED << frontVars, chanVars, writerVars, treeVars, adminVars, snappyCompression, disk, n, current, size, files, index, indexN,
                    blobPos, f, rolledFrom, budget, acked, expect, faulty >>

\* backend.n++
PutIncN(p) ==
    /\ pc[p] = "put_incn"
    /\ n' = n + 1
    /\ rolledFrom' = [rolledFrom EXCEPT ![p] = n]
    /\ Goto(p, "put_wopen")
    /\ UNCHANGED << frontVars, chanVars, writerVars, treeVars, adminVars, snappyCompression, disk, current, size, files, index, indexN, mutex,
                    blobPos, f, budget, acked, expect, faulty >>

\* wopen, were it to create the file and leave out the magic
wopenDiskNoMagic(k) == IF k \in DOMAIN disk THEN disk ELSE (k :> <<>>) @@ disk

\* BlobsFileBackend.wopen(k): the directory after it. A file that did not
\* exist is created and gets the magic.
wopenDisk(k) == IF k \in DOMAIN disk THEN disk ELSE (k :> magic) @@ disk

\* backend.wopen(backend.n): the previous handle is closed, backend.current is
\* the new handle at the end of its file, backend.size the size of the file
PutWopen(p) ==
    /\ pc[p] = "put_wopen"
    /\ disk' = wopenDisk(n)
    /\ current' = [file |-> n, pos |-> Len(disk'[n])]
    /\ size' = Len(disk'[n])
    /\ Goto(p, "put_ropen")
    /\ UNCHANGED << frontVars, chanVars, writerVars, treeVars, adminVars, snappyCompression, n, files, index, indexN, mutex,
                    blobPos, f, rolledFrom, budget, acked, expect, faulty >>

\* BlobsFileBackend.ropen(k): "ok", or "err" (more files asked for than are
\* open, no such file, magic not found)
ropenResult(k) ==
    IF k \in files THEN "ok"
    ELSE IF k > Cardinality(files) THEN "err"
    ELSE IF k \notin DOMAIN disk THEN "err"
    ELSE IF ReadAt(disk[k], 0, Len(magic)) # magic THEN "err"
    ELSE "ok"

\* backend.ropen(backend.n); an error panics, and the deferred Unlock runs
PutRopen(p) ==
    /\ pc[p] = "put_ropen"
    /\ IF ropenResult(n) = "ok"
       THEN /\ files' = files \cup {n}
            /\ Goto(p, "put_saven")
            /\ UNCHANGED << frontVars, chanVars, writerVars, mutex, faulty, blobPos, f, rolledFrom >>
       ELSE /\ mutex' = Free
            /\ faulty' = TRUE
            /\ Return(p, "panic")
            /\ UNCHANGED files
    /\ UNCHANGED << frontVars, chanVars, writerVars, treeVars, adminVars, snappyCompression, disk, n, current, size, index, indexN,
                    budget, acked, expect >>

\* Put, were it to go on without saving n
PutSaveNSkipped(p) ==
    /\ pc[p] = "put_saven"
    /\ Goto(p, "put_setpos")
    /\ UNCHANGED << frontVars, chanVars, writerVars, treeVars, adminVars, snappyCompression, disk, n, current, size, files, index, indexN, mutex,
                    blobPos, f, rolledFrom, budget, acked, expect, faulty >>

\* backend.saveN()
PutSaveN(p) ==
    /\ pc[p] = "put_saven"
    /\ indexN' = n
    /\ Goto(p, "put_setpos")
    /\ UNCHANGED << frontVars, chanVars, writerVars, treeVars, adminVars, snappyCompression, disk, n, current, size, files, index, mutex,
                    blobPos, f, rolledFrom, budget, acked, expect, faulty >>

\* "Save the blob in the index": the record Put stores for its blob
NewBlobPos(blobSize) == [n |-> n, offset |-> size, size |-> blobSize]

\* backend.index.SetPos(hash, blobPos)
PutSetPos(p) ==
    /\ pc[p] = "put_setpos"
    /\ index' = SetPos(hash[p], NewBlobPos(encodeBlob(data[p]).size))
    /\ Goto(p, "put_write")
    /\ UNCHANGED << frontVars, chanVars, writerVars, treeVars, adminVars, snappyCompression, disk, n, current, size, files, indexN, mutex,
                    blobPos, f, rolledFrom, budget, acked, expect, faulty >>

\* backend.current.Write(b) that writes the first k bytes of b
WriteCurrent(b, k) ==
    /\ disk' = [disk EXCEPT ![current.file] = WriteBytes(@, current.pos, SubSeq(b, 1, k))]
    /\ current' = [current EXCEPT !.pos = @ + k]

\* the labels of a Put that holds the mutex
PutLabels == {"put_incn", "put_wopen", "put_ropen", "put_saven", "put_setpos", "put_write"}

\* Another caller is storing other data under the hash of p's Put: what the
\* store then holds under that hash is for the callers to settle
Contended(p) ==
    \E q \in Procs \ {p} :
       /\ pc[q] \in PutLabels \cup {"put_lock"}
       /\ hash[q] = hash[p]
       /\ data[q] # data[p]

\* "Actually save the blob": the whole frame is written and synced, Put
\* returns nil and the deferred Unlock runs. The store has acknowledged the data.
PutWriteOk(p) ==
    /\ pc[p] = "put_write"
    /\ LET enc == encodeBlob(data[p]).data
       IN /\ WriteCurrent(enc, Len(enc))
          /\ size' = size + Len(enc)
    /\ mutex' = Free
    /\ acked' = [acked EXCEPT ![hash[p]] =
                   IF Contended(p) THEN NoAck ELSE [kind |-> "put", blob |-> data[p]]]
    /\ Return(p, "ok")
    /\ UNCHANGED << frontVars, chanVars, writerVars, treeVars, adminVars, snappyCompression, n, files, index, indexN, budget, expect, faulty >>

\* The bytes a failing Write has written before it fails: the hash field
ShortWrites == {hashSize}

\* The write fails after k bytes: Put returns the error, the deferred Unlock runs
PutWriteFail(p, k) ==
    /\ pc[p] = "put_write"
    /\ LET enc == encodeBlob(data[p]).data
       IN /\ k < Len(enc)
          /\ WriteCurrent(enc, k)
          /\ size' = size + Len(enc)
    /\ mutex' = Free
    /\ faulty' = TRUE
    /\ Return(p, "err")
    /\ UNCHANGED << frontVars, chanVars, writerVars, treeVars, adminVars, snappyCompression, n, files, index, indexN, budget, acked, expect >>

(***************************************************************************)
(* Get (hash)                                                              *)
(***************************************************************************)
\* Get from the read of the blobs file on: "Read the encoded blob from the
\* BlobsFile", "Ensure the data lenght is expcted", "Decode the blob".
\* [kind, blob]: what Get returns
GetOutcome(pos) ==
    IF pos.n \notin files THEN [kind |-> "err", blob |-> <<>>]
    ELSE
      LET d == ReadAt(disk[pos.n], pos.offset, pos.size + Overhead)
      IN IF Len(d) # pos.size + Overhead THEN [kind |-> "err", blob |-> <<>>]
         ELSE LET r == decodeBlob(d)
              IN IF r.panic THEN [kind |-> "panic", blob |-> <<>>]
                 ELSE IF r.size # pos.size THEN [kind |-> "err", blob |-> <<>>]
                 ELSE [kind |-> "ok", blob |-> r.blob]

\* What the store has promised about h to a Get that begins now
Promise(h) == IF acked[h].kind = "put" THEN acked[h] ELSE NoAck

\* Get is called and fetches the index entry; without one it returns
\* ErrBlobNotFound
GetCall(p, h) ==
    /\ pc[p] = "idle"
    /\ IF GetPos(h) = NilPos
       THEN /\ ret' = [ret EXCEPT ![p] = "notfound"]
            /\ UNCHANGED << frontVars, chanVars, writerVars, pc, hash, blobPos, expect >>
       ELSE /\ ret' = [ret EXCEPT ![p] = NoRet]
            /\ hash' = [hash EXCEPT ![p] = h]
            /\ expect' = [expect EXCEPT ![p] = Promise(h)]
            /\ blobPos' = [blobPos EXCEPT ![p] = GetPos(h)]
            /\ pc' = [pc EXCEPT ![p] = "get_read"]
    /\ UNCHANGED << frontVars, chanVars, writerVars, treeVars, adminVars, snappyCompression, disk, n, current, size, files, index, indexN,
                    mutex, data, f, rolledFrom, budget, acked, faulty >>

\* Get reads the frame, decodes it and returns
GetRead(p) ==
    /\ pc[p] = "get_read"
    /\ Return(p, GetOutcome(blobPos[p]).kind)
    /\ expect' = [expect EXCEPT ![p] = NoAck]
    /\ UNCHANGED << frontVars, chanVars, writerVars, treeVars, adminVars, snappyCompression, disk, n, current, size, files, index, indexN,
                    mutex, budget, acked, faulty >>

(***************************************************************************)
(* Stat (hash)                                                             *)
(***************************************************************************)
Stat(p, h) ==
    /\ pc[p] = "idle"
    /\ ret' = [ret EXCEPT ![p] = IF Exists(h) THEN "true" ELSE "false"]
    /\ UNCHANGED << frontVars, chanVars, writerVars, treeVars, adminVars, snappyCompression, disk, n, current, size, files, index, indexN,
                    mutex, pc, hash, data, blobPos, f, rolledFrom, budget, acked,
                    expect, faulty >>

(***************************************************************************)
(* Delete (hash)                                                           *)
(***************************************************************************)
\* Delete returns an error
DeleteFails(p) ==
    /\ faulty' = TRUE
    /\ Return(p, "err")

\* Delete is called and fetches the index entry; without one it returns an
\* error. From here on the store promises nothing about h to a running Get.
DeleteCall(p, h) ==
    /\ pc[p] = "idle"
    /\ acked' = [acked EXCEPT ![h] = [kind |-> "delete", blob |-> <<>>]]
    /\ expect' = [q \in Procs |-> IF hash[q] = h THEN NoAck ELSE expect[q]]
    /\ IF GetPos(h) = NilPos
       THEN DeleteFails(p)
       ELSE /\ ret' = [ret EXCEPT ![p] = NoRet]
            /\ hash' = [hash EXCEPT ![p] = h]
            /\ blobPos' = [blobPos EXCEPT ![p] = GetPos(h)]
            /\ pc' = [pc EXCEPT ![p] = "del_open"]
            /\ UNCHANGED << frontVars, chanVars, writerVars, data, f, rolledFrom, faulty >>
    /\ UNCHANGED << frontVars, chanVars, writerVars, treeVars, adminVars, snappyCompression, disk, n, current, size, files, index, indexN,
                    mutex, budget >>

\* "check if the file is already open for writing": the file handle Delete
\* writes through, backend.current or one it opens itself with O_RDWR
DeleteFile(pos) ==
    IF pos.n = n THEN [file |-> current.file, own |-> FALSE]
    ELSE IF pos.n \in DOMAIN disk THEN [file |-> pos.n, own |-> TRUE]
    ELSE NilFile

DeleteOpen(p) ==
    /\ pc[p] = "del_open"
    /\ IF DeleteFile(blobPos[p]) = NilFile
       THEN DeleteFails(p)
       ELSE /\ f' = [f EXCEPT ![p] = DeleteFile(blobPos[p])]
            /\ Goto(p, "del_flag")
            /\ UNCHANGED << frontVars, chanVars, writerVars, faulty, blobPos, rolledFrom >>
    /\ UNCHANGED << frontVars, chanVars, writerVars, treeVars, adminVars, snappyCompression, disk, n, current, size, files, index, indexN,
                    mutex, budget, acked, expect >>

\* f can be written through: Delete's own handle, or backend.current as long as
\* wopen has not closed it
Writable(fh) == fh.own \/ fh.file = current.file

\* "Add Deleted to the flag"
DeleteFlag(p) ==
    /\ pc[p] = "del_flag"
    /\ IF Writable(f[p])
       THEN /\ disk' = [disk EXCEPT ![f[p].file] =
                          WriteBytes(@, blobPos[p].offset + hashSize, <<Deleted>>)]
            /\ Goto(p, "del_index")
            /\ UNCHANGED << frontVars, chanVars, writerVars, faulty, blobPos, f, rolledFrom >>
       ELSE /\ DeleteFails(p)
            /\ UNCHANGED disk
    /\ UNCHANGED << frontVars, chanVars, writerVars, treeVars, adminVars, snappyCompression, n, current, size, files, index, indexN, mutex,
                    budget, acked, expect >>

\* Delete, were it to keep the index entry
DeleteIndexKept(p) ==
    /\ pc[p] = "del_index"
    /\ Goto(p, "del_punch")
    /\ UNCHANGED << frontVars, chanVars, writerVars, treeVars, adminVars, snappyCompression, disk, n, current, size, files, index, indexN, mutex,
                    blobPos, f, rolledFrom, budget, acked, expect, faulty >>

\* "Delete the index entry"
DeleteIndex(p) ==
    /\ pc[p] = "del_index"
    /\ index' = DeletePos(hash[p])
    /\ Goto(p, "del_punch")
    /\ UNCHANGED << frontVars, chanVars, writerVars, treeVars, adminVars, snappyCompression, disk, n, current, size, files, indexN, mutex,
                    blobPos, f, rolledFrom, budget, acked, expect, faulty >>

\* "Punch a hole in the file if possible": the hole is punched, Delete returns
\* nil and the deferred Close of its own handle runs
DeletePunch(p) ==
    /\ pc[p] = "del_punch"
    /\ IF Writable(f[p])
       THEN /\ disk' = [disk EXCEPT ![f[p].file] =
                          PunchHole(@, blobPos[p].offset + Overhead, blobPos[p].size)]
            /\ Return(p, "ok")
            /\ UNCHANGED faulty
       ELSE /\ DeleteFails(p)
            /\ UNCHANGED disk
    /\ UNCHANGED << frontVars, chanVars, writerVars, treeVars, adminVars, snappyCompression, n, current, size, files, index, indexN, mutex,
                    budget, acked, expect >>

\* PunchHole returns an error: Delete returns "failed to punch hole"
DeletePunchFail(p) ==
    /\ pc[p] = "del_punch"
    /\ DeleteFails(p)
    /\ UNCHANGED << frontVars, chanVars, writerVars, treeVars, adminVars, snappyCompression, disk, n, current, size, files, index, indexN,
                    mutex, budget, acked, expect >>

(***************************************************************************)
(* The index database: an ordered key-value store. A position record is    *)
(* stored under BlobPosKey | hash bytes, the counter n under MetaKey | "n". *)
(***************************************************************************)
MetaKey == 0

BlobPosKey == 1

\* formatKey(prefix, bkey)
formatKey(prefix, bkey) == <<prefix>> \o bkey

\* the keys of the database; "n" is the byte 110
dbKeys ==
    {formatKey(BlobPosKey, h) : h \in DOMAIN index} \cup {formatKey(MetaKey, <<110>>)}

\* bytes.Compare
RECURSIVE bytesCompare(_, _)
bytesCompare(a, b) ==
    IF a = <<>> THEN (IF b = <<>> THEN 0 ELSE -1)
    ELSE IF b = <<>> THEN 1
    ELSE IF a[1] < b[1] THEN -1
    ELSE IF a[1] > b[1] THEN 1
    ELSE bytesCompare(Tail(a), Tail(b))

\* the keys of S in the order of the database
RECURSIVE Ascending(_)
Ascending(S) ==
    IF S = {} THEN <<>>
    ELSE LET m == CHOOSE x \in S : \A y \in S : bytesCompare(x, y) <= 0
         IN <<m>> \o Ascending(S \ {m})

\* db.Seek(key): the keys enum.Next() returns, one after the other, until io.EOF
dbSeek(key) == Ascending({k \in dbKeys : bytesCompare(k, key) >= 0})

(***************************************************************************)
(* Enumerate                                                               *)
(***************************************************************************)
\* variant: the seek starts at the first key of the database
enumerateOutFromFirst ==
    LET ks == dbSeek(<<>>)
    IN [i \in 1..Len(ks) |-> HexEncode(Tail(ks[i]))]

\* what Enumerate sends on its channel: every key from the BlobPosKey prefix
\* on, without the prefix byte, in hex
enumerateOut ==
    LET ks == dbSeek(formatKey(BlobPosKey, <<>>))
    IN [i \in 1..Len(ks) |-> HexEncode(Tail(ks[i]))]

\* BlobsFileBackend.Len
BackendLen == Len(enumerateOut)

(***************************************************************************)
(* scan and reindex                                                        *)
(***************************************************************************)
\* one iteration of the inner loop of scan over the bytes d of container k.
\* st: [kind, iter, corrupted, rp, offset], rp the position of the read
\* handle, offset the local offset. kind becomes "eof" when the read of the
\* hash hits io.EOF (break) and "err" when scan returns an error
scanFrame(d, k, st) ==
    IF st.rp >= Len(d) THEN [st EXCEPT !.kind = "eof"]
    ELSE
      LET hashRead == ReadAt(d, st.rp, hashSize)
          blobHash == CopyInto(hashSize, hashRead)
          p1 == st.rp + Len(hashRead)
          flags == ReadAt(d, p1, 1)
          p2 == p1 + Len(flags)
          sizeRead == ReadAt(d, p2, 4)
          p3 == p2 + Len(sizeRead)
          blobSize == Uint32(CopyInto(4, sizeRead))
          rawBlob == ReadAt(d, p3, blobSize)
          p4 == p3 + Len(rawBlob)
          blobPos_ == [n |-> k, offset |-> st.offset, size |-> blobSize]
          dec == IF snappyCompression THEN snappyDecode(rawBlob)
                 ELSE [ok |-> TRUE, out |-> rawBlob]
          sum == Sum256(dec.out)
          failed == [st EXCEPT !.kind = "err", !.rp = p4]
          read == [st EXCEPT !.rp = p4, !.offset = @ + Overhead + blobSize]
      IN IF flags = <<>> \/ sizeRead = <<>> THEN failed
         ELSE IF Len(rawBlob) # blobSize THEN failed
         ELSE IF flags[1] = Deleted THEN read
         ELSE IF ~dec.ok THEN failed
         ELSE IF HexEncode(blobHash) = HexEncode(sum)
         THEN [read EXCEPT !.iter = Append(@, [pos |-> blobPos_, hash |-> sum])]
         ELSE [read EXCEPT !.corrupted = Append(@, blobPos_)]

\* the inner loop of scan: iterations until break or return
RECURSIVE scanFrames(_, _, _)
scanFrames(d, k, st) ==
    CHOOSE res \in {IF v.kind = "scan" THEN scanFrames(d, k, v) ELSE v :
                      v \in {scanFrame(d, k, st)}} : TRUE

\* one iteration of the outer loop of scan, for container k. acc: [kind, iter,
\* corrupted, rpos, files]; kind becomes "ok" when ropen finds no file
\* (break) and "err" when scan returns an error
scanFile(k, acc) ==
    LET open == k \in acc.files
    IN IF ~open /\ k > Cardinality(acc.files) THEN [acc EXCEPT !.kind = "err"]
       ELSE IF ~open /\ k \notin DOMAIN disk THEN [acc EXCEPT !.kind = "ok"]
       ELSE IF ~open /\ ReadAt(disk[k], 0, Len(magic)) # magic THEN [acc EXCEPT !.kind = "err"]
       ELSE
         LET rp == IF open /\ k \in DOMAIN acc.rpos THEN acc.rpos[k] ELSE Len(magic)
         IN CHOOSE res \in
              {[kind |-> IF r.kind = "err" THEN "err" ELSE "scan",
                iter |-> r.iter, corrupted |-> r.corrupted,
                rpos |-> (k :> r.rp) @@ acc.rpos, files |-> acc.files \cup {k}] :
                 r \in {scanFrames(disk[k], k,
                                   [kind |-> "scan", iter |-> acc.iter,
                                    corrupted |-> acc.corrupted, rp |-> rp,
                                    offset |-> 6])}} : TRUE

\* the outer loop of scan from container k on
RECURSIVE scanFiles(_, _)
scanFiles(k, acc) ==
    CHOOSE res \in {IF v.kind = "scan" THEN scanFiles(k + 1, v) ELSE v :
                      v \in {scanFile(k, acc)}} : TRUE

\* BlobsFileBackend.scan on a backend with the read handles fs at positions
\* rp: [kind, iter, corrupted, rpos, files]; kind is "ok" (nil), "corrupted"
\* (a CorruptedError with the list) or "err"; iter lists the iterFunc calls
scan(fs, rp) ==
    CHOOSE res \in
      {[r EXCEPT !.kind = IF r.kind = "ok" /\ r.corrupted # <<>> THEN "corrupted" ELSE r.kind] :
         r \in {scanFiles(0, [kind |-> "scan", iter |-> <<>>, corrupted |-> <<>>,
                              rpos |-> rp, files |-> fs])}} : TRUE

\* the iterFunc of reindex applied to the calls iter[i..]: index.SetPos of each
RECURSIVE setAll(_, _, _)
setAll(idx, iter, i) ==
    IF i > Len(iter) THEN idx
    ELSE setAll((iter[i].hash :> iter[i].pos) @@ idx, iter, i + 1)

\* BlobsFileBackend.reindex on a backend with counter bn, read handles fs at
\* rp, index idx holding cnt position records and the saved counter saved:
\* [kind, index, indexN, files, rpos]; kind is "ok", "panic" (non-empty
\* backend), or the error of scan
reindex(bn, fs, rp, idx, saved, cnt) ==
    IF cnt # 0
    THEN [kind |-> "panic", index |-> idx, indexN |-> saved, files |-> fs, rpos |-> rp]
    ELSE
      CHOOSE res \in
        {LET localN == IF r.iter = <<>> THEN 0 ELSE r.iter[Len(r.iter)].pos.n
         IN [kind |-> r.kind,
             index |-> setAll(idx, r.iter, 1),
             indexN |-> IF r.kind = "ok" /\ localN # 0 THEN bn ELSE saved,
             files |-> r.files,
             rpos |-> r.rpos] : r \in {scan(fs, rp)}} : TRUE

\* the loop of load: the number of blobs files opened for read, -1 when one
\* of them does not begin with the magic
RECURSIVE loadOpen(_)
loadOpen(k) ==
    IF k \notin DOMAIN disk THEN k
    ELSE IF ReadAt(disk[k], 0, Len(magic)) # magic THEN -1
    ELSE loadOpen(k + 1)

\* New on the directory after its blobs-index was removed: load opens the
\* blobs files, opens the last one for writing, saves n and, the index being
\* new, reindexes. [kind, n, index, indexN, files, rpos]; any error panics
newBackend ==
    LET cnt == loadOpen(0)
    IN IF cnt <= 0
       THEN [kind |-> "panic", n |-> n, index |-> << >>, indexN |-> indexN,
             files |-> {}, rpos |-> << >>]
       ELSE CHOOSE res \in
              {[kind |-> IF r.kind = "ok" THEN "ok" ELSE "panic", n |-> cnt - 1,
                index |-> r.index, indexN |-> r.indexN, files |-> r.files,
                rpos |-> r.rpos] :
                 r \in {reindex(cnt - 1, 0..(cnt - 1), << >>, << >>, cnt - 1, 0)}} : TRUE

\* The process ends, the directory blobs-index is removed and New opens the
\* store again
Reopen(p) ==
    /\ \A q \in Procs : pc[q] = "idle"
    /\ \E b \in {newBackend} :
          /\ n' = b.n
          /\ current' = [file |-> b.n, pos |-> Len(disk[b.n])]
          /\ size' = Len(disk[b.n])
          /\ files' = b.files
          /\ index' = b.index
          /\ indexN' = b.indexN
          /\ rpos' = b.rpos
          /\ ret' = [ret EXCEPT ![p] = b.kind]
    /\ mutex' = Free
    /\ UNCHANGED << frontVars, chanVars, writerVars, treeVars, enum, altered, flips, snappyCompression, disk, pc, hash, data,
                    blobPos, f, rolledFrom, budget, acked, expect, faulty >>

\* backend.reindex() on the loaded backend
Reindex(p) ==
    /\ pc[p] = "idle"
    /\ \E r \in {reindex(n, files, rpos, index, indexN, BackendLen)} :
          /\ index' = r.index
          /\ indexN' = r.indexN
          /\ files' = r.files
          /\ rpos' = r.rpos
          /\ ret' = [ret EXCEPT ![p] = r.kind]
    /\ UNCHANGED << frontVars, chanVars, writerVars, treeVars, enum, altered, flips, snappyCompression, disk, n, current, size,
                    mutex, pc, hash, data, blobPos, f, rolledFrom, budget, acked, expect,
                    faulty >>

\* the bytes of the frame a position record names, as far as the file has them
FrameAt(pos) ==
    IF pos.n \in DOMAIN disk
    THEN ReadAt(disk[pos.n], pos.offset, Overhead + pos.size)
    ELSE <<>>

\* one bit of the byte b is flipped
FlipByte(b) == IF b % 2 = 0 THEN b + 1 ELSE b - 1

\* The disk alters the first payload byte of the frame of h
Corrupt(h) ==
    /\ \A q \in Procs : pc[q] = "idle"
    /\ flips > 0
    /\ h \in DOMAIN index
    /\ index[h].size > 0
    /\ index[h] \notin altered
    /\ Len(FrameAt(index[h])) = Overhead + index[h].size
    /\ flips' = flips - 1
    /\ altered' = altered \cup {index[h]}
    /\ disk' = [disk EXCEPT ![index[h].n] =
                  [@ EXCEPT ![index[h].offset + Overhead + 1] = FlipByte(@)]]
    /\ UNCHANGED << frontVars, chanVars, writerVars, treeVars, rpos, enum, snappyCompression, n, current, size, files, index,
                    indexN, mutex, pc, hash, data, blobPos, f, ret, rolledFrom, budget,
                    acked, expect, faulty >>

(***************************************************************************)
(* Enumerate and Enumerate2. Both hold the mutex from their first to their *)
(* last statement; the receiver then reads the channel to its close.       *)
(***************************************************************************)
\* Enumerate(blobs): the hashes sent on the channel
Enumerate(p) ==
    /\ pc[p] = "idle"
    /\ mutex = Free
    /\ enum' = [NoEnum EXCEPT !.call = "Enumerate", !.blobs = enumerateOut]
    /\ pc' = [pc EXCEPT ![p] = "enum_sent"]
    /\ UNCHANGED << frontVars, chanVars, writerVars, treeVars, rpos, altered, flips, snappyCompression, disk, n, current, size,
                    files, index, indexN, mutex, hash, data, blobPos, f, ret, rolledFrom,
                    budget, acked, expect, faulty >>

\* the loop of Enumerate2 over the keys ks that enum.Next() still returns;
\* i is the local i, out what was sent on the channel
RECURSIVE enumerate2Loop(_, _, _, _, _)
enumerate2Loop(ks, endBytes, limit, i, out) ==
    IF ks = <<>> THEN out
    ELSE IF bytesCompare(Head(ks), endBytes) > 0 \/ (limit # 0 /\ i > limit) THEN out
    ELSE enumerate2Loop(Tail(ks), endBytes, limit, i + 1,
                        Append(out, [Hash |-> HexEncode(Tail(Head(ks))),
                                     Size |-> index[Tail(Head(ks))].size]))

\* what Enumerate2(blobs, start, end, limit) sends on the channel; start and
\* end are strings (their characters), endBytes is []byte(end)
enumerate2Out(start, end, limit) ==
    IF ~HexDecode(start).ok THEN <<>>
    ELSE enumerate2Loop(dbSeek(formatKey(BlobPosKey, HexDecode(start).out)),
                        end, limit, 0, <<>>)

\* the strings given as start and end: the empty string and the hex strings
\* of the hashes
Bounds == {<<>>} \cup {HexEncode(h) : h \in Hashes}

\* the limits given
Limits == 0..AdminPuts

Enumerate2(p, start, end, limit) ==
    /\ pc[p] = "idle"
    /\ mutex = Free
    /\ enum' = [call |-> "Enumerate2", start |-> start, end |-> end, limit |-> limit,
                blobs |-> enumerate2Out(start, end, limit)]
    /\ pc' = [pc EXCEPT ![p] = "enum_sent"]
    /\ UNCHANGED << frontVars, chanVars, writerVars, treeVars, rpos, altered, flips, snappyCompression, disk, n, current, size,
                    files, index, indexN, mutex, hash, data, blobPos, f, ret, rolledFrom,
                    budget, acked, expect, faulty >>

\* the receiver has read the channel to its close
EnumerateDone(p) ==
    /\ pc[p] = "enum_sent"
    /\ enum' = NoEnum
    /\ pc' = [pc EXCEPT ![p] = "idle"]
    /\ UNCHANGED << frontVars, chanVars, writerVars, treeVars, rpos, altered, flips, snappyCompression, disk, n, current, size,
                    files, index, indexN, mutex, hash, data, blobPos, f, ret, rolledFrom,
                    budget, acked, expect, faulty >>

(***************************************************************************)
(* The state tree of the sync table (db/list.go). A running hash.Hash is   *)
(* modelled by the bytes written to it; Sum(nil) is the digest of them.    *)
(***************************************************************************)
\* The blobs whose hashes a namespace holds: the digests of the first and of
\* the last begin with the same byte, so their hex strings share a bucket
TreeBlobs == Blobs \cup {<<83>>}

\* the hashes of a namespace are hex strings
TreeHashes == {HexEncode(Sum256(b)) : b \in TreeBlobs}

NewStateTree == [root |-> <<>>, level1 |-> << >>, count |-> 0]

\* variant: the bucket is named by the first character only
AddOneChar(st, h) ==
    [root |-> st.root \o h,
     level1 |-> (Slice(h, 0, 1) :>
                   ((IF Slice(h, 0, 1) \in DOMAIN st.level1
                     THEN st.level1[Slice(h, 0, 1)] ELSE <<>>) \o h)) @@ st.level1,
     count |-> st.count + 1]

\* StateTree.Add
Add(st, h) ==
    [root |-> st.root \o h,
     level1 |-> (Slice(h, 0, 2) :>
                   ((IF Slice(h, 0, 2) \in DOMAIN st.level1
                     THEN st.level1[Slice(h, 0, 2)] ELSE <<>>) \o h)) @@ st.level1,
     count |-> st.count + 1]

\* StateTree.Root
Root(st) == HexEncode(Sum256(st.root))

\* StateTree.Level1
Level1(st) == [k \in DOMAIN st.level1 |-> HexEncode(Sum256(st.level1[k]))]

\* StateTree.Count
Count(st) == st.count

\* generateTree: the loop over the hashes nsdb.Namespace returned
RECURSIVE generateTree(_, _)
generateTree(state, hashes) ==
    IF hashes = <<>> THEN state
    ELSE CHOOSE res \in {generateTree(v, Tail(hashes)) :
                           v \in {Add(state, Head(hashes))}} : TRUE

\* nsdb.Namespace(ns, ""): the hashes of the namespace X, each once, in an
\* order the caller cannot rely on
Namespace(X) ==
    {hs \in [1..Cardinality(X) -> X] : \A i, j \in 1..Cardinality(X) : hs[i] = hs[j] => i = j}

\* what stateHandler answers when Namespace returned hashes
stateHandler(hashes) ==
    CHOOSE res \in {[built |-> TRUE, read |-> hashes, root |-> Root(state),
                     count |-> Count(state), leafs |-> Level1(state)] :
                      state \in {generateTree(NewStateTree, hashes)}} : TRUE

\* a blob reference is added to the namespace of replica t
NsAdd(t, h) ==
    /\ h \notin ns[t]
    /\ ns' = [ns EXCEPT ![t] = @ \cup {h}]
    /\ tree' = [tree EXCEPT ![t] = NoTree]
    /\ UNCHANGED << frontVars, chanVars, writerVars, syncVars, adminVars, snappyCompression, disk, n, current, size, files, index,
                    indexN, mutex, pc, hash, data, blobPos, f, ret, rolledFrom, budget,
                    acked, expect, faulty >>

\* GET _state/{ns} on replica t
StateHandler(t) ==
    /\ ~tree[t].built
    /\ \E hashes \in Namespace(ns[t]) : tree' = [tree EXCEPT ![t] = stateHandler(hashes)]
    /\ UNCHANGED << frontVars, chanVars, writerVars, ns, syncVars, adminVars, snappyCompression, disk, n, current, size, files, index,
                    indexN, mutex, pc, hash, data, blobPos, f, ret, rolledFrom, budget,
                    acked, expect, faulty >>

(***************************************************************************)
(* The sync protocol (db/list.go): triggerHandler on the client replica    *)
(* posts its State to syncHandler of the server replica and works through  *)
(* the response.                                                           *)
(***************************************************************************)
\* the State a handler fills from the tree it generated
NewState(state) == [root |-> Root(state), count |-> Count(state), leafs |-> Level1(state)]

\* variant: every leaf both states have is a conflict
leafsConflictAll(local_state, remote_state) ==
    {lleaf \in DOMAIN local_state.leafs : lleaf \in DOMAIN remote_state.leafs}

\* syncHandler: the local leafs the remote state has with another hash
leafsConflict(local_state, remote_state) ==
    {lleaf \in DOMAIN local_state.leafs :
       /\ lleaf \in DOMAIN remote_state.leafs
       /\ local_state.leafs[lleaf] # remote_state.leafs[lleaf]}

\* syncHandler: the leafs only present locally
leafsToSend(local_state, remote_state) ==
    {lleaf \in DOMAIN local_state.leafs : lleaf \notin DOMAIN remote_state.leafs}

\* variant: every leaf of the remote state is needed
leafsNeededAll(local_state, remote_state) == DOMAIN remote_state.leafs

\* syncHandler: the leafs present only on the remote side
leafsNeeded(local_state, remote_state) ==
    {rleaf \in DOMAIN remote_state.leafs : rleaf \notin DOMAIN local_state.leafs}

\* the elements of S in the order a range over a Go map, or the appends made
\* in it, may give them
MapOrder(S) ==
    {l \in [1..Cardinality(S) -> S] : \A i, j \in 1..Cardinality(S) : l[i] = l[j] => i = j}

\* variant: in sync when the counts are equal
inSyncByCount(local_state, remote_state) == local_state.count = remote_state.count

\* syncHandler: first check the root
inSync(local_state, remote_state) == local_state.root = remote_state.root

\* variant: the field Needed is read from the key "needed"
decodeSyncRespNeeded(body) ==
    [Conflicted |-> IF "conflicted" \in DOMAIN body THEN body["conflicted"] ELSE <<>>,
     Needed |-> IF "needed" \in DOMAIN body THEN body["needed"] ELSE <<>>,
     Missing |-> IF "missing" \in DOMAIN body THEN body["missing"] ELSE <<>>]

\* json.Decode of a response body into a SyncResp: every field is read from
\* the key its tag names and left nil when the body has no such key
decodeSyncResp(body) ==
    [Conflicted |-> IF "conflicted" \in DOMAIN body THEN body["conflicted"] ELSE <<>>,
     Needed |-> IF "nedeed" \in DOMAIN body THEN body["nedeed"] ELSE <<>>,
     Missing |-> IF "missing" \in DOMAIN body THEN body["missing"] ELSE <<>>]

\* stateLeafsHandler: the hashes of the namespace X that begin with prefix
stateLeafs(X, prefix) == {h \in X : SubSeq(h, 1, Len(prefix)) = prefix}

\* triggerHandler: generateTree, then client.Sync up to the POST
Trigger ==
    /\ stc.pc \in {"idle", "done"}
    /\ \E hashes \in Namespace(ns[Client]) :
         \E state \in {generateTree(NewStateTree, hashes)} :
            posted' = NewState(state)
    /\ resp' = NoResp
    /\ stc' = [NoSync EXCEPT !.pc = "posted", !.before = ns]
    /\ UNCHANGED << frontVars, chanVars, writerVars, ns, tree, adminVars, snappyCompression, disk, n, current, size, files,
                    index, indexN, mutex, pc, hash, data, blobPos, f, ret, rolledFrom,
                    budget, acked, expect, faulty >>

\* syncHandler on the server replica
SyncHandler ==
    /\ stc.pc = "posted"
    /\ \E hashes \in Namespace(ns[Server]) :
         \E local_state \in {NewState(generateTree(NewStateTree, hashes))} :
            IF inSync(local_state, posted)
            THEN resp' = [code |-> 204, body |-> NoBody, local |-> local_state]
            ELSE \E c \in MapOrder(leafsConflict(local_state, posted)),
                    nd \in MapOrder(leafsNeeded(local_state, posted)),
                    m \in MapOrder(leafsToSend(local_state, posted)) :
                   resp' = [code |-> 200,
                            body |-> [conflicted |-> c, needed |-> nd, missing |-> m],
                            local |-> local_state]
    /\ stc' = [stc EXCEPT !.pc = "responded"]
    /\ UNCHANGED << frontVars, chanVars, writerVars, ns, tree, posted, adminVars, snappyCompression, disk, n, current, size,
                    files, index, indexN, mutex, pc, hash, data, blobPos, f, ret,
                    rolledFrom, budget, acked, expect, faulty >>

\* Sync: doReq of the POST returns an error, before or after the server
\* has handled it
SyncPostFail ==
    /\ stc.pc \in {"posted", "responded"}
    /\ stc' = [stc EXCEPT !.pc = "done", !.err = TRUE]
    /\ UNCHANGED << frontVars, chanVars, writerVars, ns, tree, posted, resp, adminVars, snappyCompression, disk, n, current,
                    size, files, index, indexN, mutex, pc, hash, data, blobPos, f, ret,
                    rolledFrom, budget, acked, expect, faulty >>

\* Sync: the switch on the status code; case 200 decodes the SyncResp
SyncDecode ==
    /\ stc.pc = "responded"
    /\ IF resp.code = 204
       THEN stc' = [stc EXCEPT !.pc = "done"]
       ELSE \E sr \in {decodeSyncResp(resp.body)} :
              stc' = [stc EXCEPT !.pc = "leafs", !.sr = sr, !.todo = sr.Missing]
    /\ UNCHANGED << frontVars, chanVars, writerVars, ns, tree, posted, resp, adminVars, snappyCompression, disk, n, current,
                    size, files, index, indexN, mutex, pc, hash, data, blobPos, f, ret,
                    rolledFrom, budget, acked, expect, faulty >>

\* variant: the hashes received replace the namespace of the client
SyncLeafsReplacing ==
    /\ stc.pc = "leafs"
    /\ stc.todo # <<>>
    /\ stc' = [stc EXCEPT !.todo = Tail(@), !.asked = Append(@, Head(stc.todo))]
    /\ ns' = [ns EXCEPT ![Client] = stateLeafs(ns[Server], Head(stc.todo))]
    /\ UNCHANGED << frontVars, chanVars, writerVars, tree, posted, resp, adminVars, snappyCompression, disk, n, current,
                    size, files, index, indexN, mutex, pc, hash, data, blobPos, f, ret,
                    rolledFrom, budget, acked, expect, faulty >>

\* Sync: one round of the loop over sr.Missing: Leafs(prefix) is answered by
\* stateLeafsHandler, and each hash received is printed
SyncLeafs ==
    /\ stc.pc = "leafs"
    /\ stc.todo # <<>>
    /\ stc' = [stc EXCEPT !.todo = Tail(@), !.asked = Append(@, Head(stc.todo))]
    /\ UNCHANGED << frontVars, chanVars, writerVars, ns, tree, posted, resp, adminVars, snappyCompression, disk, n, current,
                    size, files, index, indexN, mutex, pc, hash, data, blobPos, f, ret,
                    rolledFrom, budget, acked, expect, faulty >>

\* Sync: Leafs(prefix) returns an error
SyncLeafsFail ==
    /\ stc.pc = "leafs"
    /\ stc.todo # <<>>
    /\ stc' = [stc EXCEPT !.pc = "done", !.err = TRUE,
                          !.asked = Append(@, Head(stc.todo))]
    /\ UNCHANGED << frontVars, chanVars, writerVars, ns, tree, posted, resp, adminVars, snappyCompression, disk, n, current,
                    size, files, index, indexN, mutex, pc, hash, data, blobPos, f, ret,
                    rolledFrom, budget, acked, expect, faulty >>

\* Sync: the loop is over, return nil
SyncReturn ==
    /\ stc.pc = "leafs"
    /\ stc.todo = <<>>
    /\ stc' = [stc EXCEPT !.pc = "done"]
    /\ UNCHANGED << frontVars, chanVars, writerVars, ns, tree, posted, resp, adminVars, snappyCompression, disk, n, current,
                    size, files, index, indexN, mutex, pc, hash, data, blobPos, f, ret,
                    rolledFrom, budget, acked, expect, faulty >>

(***************************************************************************)
(* The file writer (filetree/writer): PutReader cuts a stream into chunks, *)
(* puts each chunk the store does not hold and then the meta node.         *)
(***************************************************************************)
\* the bytes of the streams
StreamBytes == {0, 1}

\* the streams given to PutReader
Streams == UNION {[1..l -> StreamBytes] : l \in 0..MaxStreamLen}

\* hashutil.Compute: the hex string of the digest
Compute(d) == HexEncode(Sum256(d))

\* the refs of a RawNode written one after the other: offset, then hash
RECURSIVE encodeRefs(_)
encodeRefs(refs) ==
    IF refs = <<>> THEN <<>>
    ELSE << Head(refs).offset >> \o Head(refs).hash \o encodeRefs(Tail(refs))

\* RawNode.Encode: the serialised node and its hash
Encode(meta) ==
    CHOOSE res \in {[mhash |-> Compute(js), mjs |-> js] :
                      js \in {<< meta.Size >> \o meta.ContentHash \o encodeRefs(meta.Refs)}} : TRUE

\* PutReader(name, reader, data) with a reader holding S, up to the loop of
\* writeReader
PutReader(S) ==
    /\ wr.pc \in {"idle", "done"}
    /\ wr.calls + 1 \in Uploads
    /\ wr' = [NoWrite EXCEPT !.pc = "next", !.input = S, !.rest = S,
                             !.calls = wr.calls + 1]
    /\ UNCHANGED << frontVars, chanVars, bs, treeVars, adminVars, snappyCompression, disk, n, current, size,
                    files, index, indexN, mutex, pc, hash, data, blobPos, f, ret,
                    rolledFrom, budget, acked, expect, faulty >>

\* writeReader: chunkSplitter.Next cuts a chunk of len bytes off the reader,
\* the tee hashes them; chunkHash and size follow
WriteReaderNext(len) ==
    /\ wr.pc = "next"
    /\ len <= Len(wr.rest)
    /\ wr' = [wr EXCEPT !.pc = "stat",
                        !.chunk = [Data |-> SubSeq(wr.rest, 1, len), Length |-> len],
                        !.rest = SubSeq(wr.rest, len + 1, Len(wr.rest)),
                        !.fullHash = @ \o SubSeq(wr.rest, 1, len),
                        !.chunkHash = Compute(SubSeq(wr.rest, 1, len)),
                        !.size = @ + len]
    /\ UNCHANGED << frontVars, chanVars, bs, treeVars, adminVars, snappyCompression, disk, n, current, size,
                    files, index, indexN, mutex, pc, hash, data, blobPos, f, ret,
                    rolledFrom, budget, acked, expect, faulty >>

\* writeReader: the reader returns an error other than io.EOF; Next returns
\* the zero Chunk and the error, which is not io.EOF
WriteReaderNextErr ==
    /\ wr.pc = "next"
    /\ wr.errs < MaxReadErrs
    /\ wr' = [wr EXCEPT !.pc = "stat", !.chunk = NoChunk,
                        !.chunkHash = Compute(NoChunk.Data),
                        !.size = @ + NoChunk.Length,
                        !.readErr = TRUE, !.errs = @ + 1]
    /\ UNCHANGED << frontVars, chanVars, bs, treeVars, adminVars, snappyCompression, disk, n, current, size,
                    files, index, indexN, mutex, pc, hash, data, blobPos, f, ret,
                    rolledFrom, budget, acked, expect, faulty >>

\* writeReader: Next returns io.EOF: break, meta.Size and meta.ContentHash are
\* set and nil is returned; PutReader encodes the node
WriteReaderEOF ==
    /\ wr.pc = "next"
    /\ wr.rest = <<>>
    /\ \E meta \in {[wr.meta EXCEPT !.Size = wr.size,
                                    !.ContentHash = HexEncode(Sum256(wr.fullHash))]} :
         \E e \in {Encode(meta)} :
            wr' = [wr EXCEPT !.pc = "mstat", !.meta = meta, !.mhash = e.mhash, !.mjs = e.mjs]
    /\ UNCHANGED << frontVars, chanVars, bs, treeVars, adminVars, snappyCompression, disk, n, current, size,
                    files, index, indexN, mutex, pc, hash, data, blobPos, f, ret,
                    rolledFrom, budget, acked, expect, faulty >>

\* variant: the chunk is put whatever Stat returned
WriteReaderStatIgnored ==
    /\ wr.pc = "stat"
    /\ wr' = [wr EXCEPT !.exists = wr.chunkHash \in DOMAIN bs, !.pc = "put"]
    /\ UNCHANGED << frontVars, chanVars, bs, treeVars, adminVars, snappyCompression, disk, n, current, size,
                    files, index, indexN, mutex, pc, hash, data, blobPos, f, ret,
                    rolledFrom, budget, acked, expect, faulty >>

\* writeReader: up.bs.Stat(ctx, chunkHash) and the test of exists
WriteReaderStat ==
    /\ wr.pc = "stat"
    /\ wr' = [wr EXCEPT !.exists = wr.chunkHash \in DOMAIN bs,
                        !.pc = IF wr.chunkHash \in DOMAIN bs THEN "ref" ELSE "put"]
    /\ UNCHANGED << frontVars, chanVars, bs, treeVars, adminVars, snappyCompression, disk, n, current, size,
                    files, index, indexN, mutex, pc, hash, data, blobPos, f, ret,
                    rolledFrom, budget, acked, expect, faulty >>

\* writeReader: Stat returns an error: panic("DB error")
WriteReaderStatFail ==
    /\ wr.pc = "stat"
    /\ wr' = [NoWrite EXCEPT !.pc = "panicked", !.ret = "panic", !.failed = "stat",
                             !.calls = wr.calls]
    /\ UNCHANGED << frontVars, chanVars, bs, treeVars, adminVars, snappyCompression, disk, n, current, size,
                    files, index, indexN, mutex, pc, hash, data, blobPos, f, ret,
                    rolledFrom, budget, acked, expect, faulty >>

\* writeReader: up.bs.Put(ctx, chunkHash, chunk.Data)
WriteReaderPut ==
    /\ wr.pc = "put"
    /\ bs' = (wr.chunkHash :> wr.chunk.Data) @@ bs
    /\ wr' = [wr EXCEPT !.pc = "ref",
                        !.puts = @ \cup {[hash |-> wr.chunkHash, exists |-> wr.exists,
                                          meta |-> FALSE]}]
    /\ UNCHANGED << frontVars, chanVars, treeVars, adminVars, snappyCompression, disk, n, current, size,
                    files, index, indexN, mutex, pc, hash, data, blobPos, f, ret,
                    rolledFrom, budget, acked, expect, faulty >>

\* writeReader: Put returns an error: panic("failed to PUT blob")
WriteReaderPutFail ==
    /\ wr.pc = "put"
    /\ wr' = [NoWrite EXCEPT !.pc = "panicked", !.ret = "panic", !.failed = "put",
                             !.calls = wr.calls]
    /\ UNCHANGED << frontVars, chanVars, bs, treeVars, adminVars, snappyCompression, disk, n, current, size,
                    files, index, indexN, mutex, pc, hash, data, blobPos, f, ret,
                    rolledFrom, budget, acked, expect, faulty >>

\* variant: the ref is put in front of the list
AddIndexedRefInFront ==
    /\ wr.pc = "ref"
    /\ wr' = [wr EXCEPT !.pc = "next",
                        !.meta.Refs = << [offset |-> wr.size, hash |-> wr.chunkHash] >> \o @]
    /\ UNCHANGED << frontVars, chanVars, bs, treeVars, adminVars, snappyCompression, disk, n, current, size,
                    files, index, indexN, mutex, pc, hash, data, blobPos, f, ret,
                    rolledFrom, budget, acked, expect, faulty >>

\* writeReader: meta.AddIndexedRef(int(size), chunkHash)
AddIndexedRef ==
    /\ wr.pc = "ref"
    /\ wr' = [wr EXCEPT !.pc = "next",
                        !.meta.Refs = Append(@, [offset |-> wr.size, hash |-> wr.chunkHash])]
    /\ UNCHANGED << frontVars, chanVars, bs, treeVars, adminVars, snappyCompression, disk, n, current, size,
                    files, index, indexN, mutex, pc, hash, data, blobPos, f, ret,
                    rolledFrom, budget, acked, expect, faulty >>

\* PutReader: up.bs.Stat(ctx, mhash); a node the store holds is returned
PutReaderStat ==
    /\ wr.pc = "mstat"
    /\ wr' = IF wr.mhash \in DOMAIN bs
             THEN [wr EXCEPT !.exists = TRUE, !.pc = "done", !.ret = "ok",
                             !.meta.Hash = wr.mhash]
             ELSE [wr EXCEPT !.exists = FALSE, !.pc = "mput"]
    /\ UNCHANGED << frontVars, chanVars, bs, treeVars, adminVars, snappyCompression, disk, n, current, size,
                    files, index, indexN, mutex, pc, hash, data, blobPos, f, ret,
                    rolledFrom, budget, acked, expect, faulty >>

\* PutReader: Stat returns an error: "failed to stat blob" is returned
PutReaderStatFail ==
    /\ wr.pc = "mstat"
    /\ wr' = [NoWrite EXCEPT !.pc = "done", !.ret = "err", !.failed = "mstat",
                             !.calls = wr.calls]
    /\ UNCHANGED << frontVars, chanVars, bs, treeVars, adminVars, snappyCompression, disk, n, current, size,
                    files, index, indexN, mutex, pc, hash, data, blobPos, f, ret,
                    rolledFrom, budget, acked, expect, faulty >>

\* PutReader: up.bs.Put(ctx, mhash, mjs), then the node is returned
PutReaderPut ==
    /\ wr.pc = "mput"
    /\ bs' = (wr.mhash :> wr.mjs) @@ bs
    /\ wr' = [wr EXCEPT !.pc = "done", !.ret = "ok", !.meta.Hash = wr.mhash,
                        !.puts = @ \cup {[hash |-> wr.mhash, exists |-> wr.exists,
                                          meta |-> TRUE]}]
    /\ UNCHANGED << frontVars, chanVars, treeVars, adminVars, snappyCompression, disk, n, current, size,
                    files, index, indexN, mutex, pc, hash, data, blobPos, f, ret,
                    rolledFrom, budget, acked, expect, faulty >>

\* PutReader: Put returns an error: "failed to put blob" is returned
PutReaderPutFail ==
    /\ wr.pc = "mput"
    /\ wr' = [NoWrite EXCEPT !.pc = "done", !.ret = "err", !.failed = "mput",
                             !.calls = wr.calls]
    /\ UNCHANGED << frontVars, chanVars, bs, treeVars, adminVars, snappyCompression, disk, n, current, size,
                    files, index, indexN, mutex, pc, hash, data, blobPos, f, ret,
                    rolledFrom, budget, acked, expect, faulty >>

(***************************************************************************)
(* Enumerate, statement by statement: its goroutine holds the mutex while  *)
(* it sends on the channel its caller made, which has no buffer (Len).     *)
(***************************************************************************)
\* what stays as it is when the Enumerate goroutine takes a step
backendVars == << snappyCompression, disk, n, current, size, files, index, indexN,
                  pc, hash, data, blobPos, f, ret, rolledFrom, budget, acked, expect,
                  faulty >>

\* the caller makes the channel and starts "go backend.Enumerate(blobs)"
EnumerateGo(p) ==
    /\ pc[p] = "idle"
    /\ ch.pc = "idle"
    /\ ch' = [NoChan EXCEPT !.pc = "lock"]
    /\ UNCHANGED << frontVars, mutex, backendVars, writerVars, treeVars, adminVars >>

\* Enumerate: backend.Lock() and index.db.Seek
EnumerateLock ==
    /\ ch.pc = "lock"
    /\ mutex = Free
    /\ mutex' = Enumerator
    /\ \E ks \in {dbSeek(formatKey(BlobPosKey, <<>>))} :
          ch' = [ch EXCEPT !.pc = "send", !.keys = ks]
    /\ UNCHANGED << frontVars, backendVars, writerVars, treeVars, adminVars >>

\* Enumerate: "blobs <- hex.EncodeToString(k[1:])". The send ends when the
\* receiver p, which is in no other call, reads the channel
EnumerateSend(p) ==
    /\ ch.pc = "send"
    /\ ch.keys # <<>>
    /\ pc[p] = "idle"
    /\ ~ch.stopped
    /\ \E k \in {Head(ch.keys)} :
          ch' = [ch EXCEPT !.keys = Tail(@), !.recv = Append(@, HexEncode(Tail(k)))]
    /\ UNCHANGED << frontVars, mutex, backendVars, writerVars, treeVars, adminVars >>

\* Enumerate: enum.Next() returns io.EOF: break, return nil, the deferred
\* Unlock and close(blobs) run
EnumerateEOF ==
    /\ ch.pc = "send"
    /\ ch.keys = <<>>
    /\ mutex' = Free
    /\ ch' = [ch EXCEPT !.pc = "idle"]
    /\ UNCHANGED << frontVars, backendVars, writerVars, treeVars, adminVars >>

\* the receiver leaves its loop over the channel before the close
ReceiverStops ==
    /\ ch.pc \in {"lock", "send"}
    /\ ~ch.stopped
    /\ ch' = [ch EXCEPT !.stopped = TRUE]
    /\ UNCHANGED << frontVars, mutex, backendVars, writerVars, treeVars, adminVars >>

(***************************************************************************)
(* Specifications                                                          *)
(***************************************************************************)
\* p takes the next step of the call it is in, or makes a call other than Put
Run(p) ==
    \/ PutLock(p)
    \/ PutIncN(p)
    \/ PutWopen(p)
    \/ PutRopen(p)
    \/ PutSaveN(p)
    \/ PutSetPos(p)
    \/ PutWriteOk(p)
    \/ \E k \in ShortWrites : PutWriteFail(p, k)
    \/ \E h \in Hashes : GetCall(p, h)
    \/ GetRead(p)
    \/ \E h \in Hashes : Stat(p, h)
    \/ \E h \in Hashes : DeleteCall(p, h)
    \/ DeleteOpen(p)
    \/ DeleteFlag(p)
    \/ DeleteIndex(p)
    \/ DeletePunch(p)
    \/ DeletePunchFail(p)

\* One caller that hashes what it stores: every call returns before the next
\* one is made, and every Put names the digest of its data
NextSeq ==
    \/ \E b \in Blobs : PutCall(1, Sum256(b), b)
    \/ Run(1)

SpecSeq == Init /\ [][NextSeq]_vars

\* Goroutines calling into the store at the same time, with any hash
Next ==
    \E p \in Procs :
        \/ \E h \in Hashes, b \in Blobs : PutCall(p, h, b)
        \/ Run(p)

Spec == InitConc /\ [][Next]_vars

\* One caller of a store that is scanned, restarted without its index, and
\* whose disk alters a byte
NextScan ==
    \/ NextSeq
    \/ Reopen(1)
    \/ Reindex(1)
    \/ \E h \in Hashes : Corrupt(h)

SpecScan == InitAdmin /\ [][NextScan]_vars

\* One caller that also enumerates the store
NextEnum ==
    \/ NextSeq
    \/ Enumerate(1)
    \/ \E start \in Bounds, end \in Bounds, limit \in Limits : Enumerate2(1, start, end, limit)
    \/ EnumerateDone(1)

SpecEnum == InitAdmin /\ [][NextEnum]_vars


\* The sync tables of the replicas: references are added and states asked for
NextTree ==
    \/ \E t \in Replicas, h \in TreeHashes : NsAdd(t, h)
    \/ \E t \in Replicas : StateHandler(t)

SpecTree == InitAdmin /\ [][NextTree]_vars

\* Two replicas: references are added to their namespaces, then the client
\* replica is triggered to sync against the server replica, with no write
\* after the first trigger
NextSync ==
    \/ \E t \in Replicas, h \in TreeHashes : stc.pc = "idle" /\ NsAdd(t, h)
    \/ Trigger
    \/ SyncHandler
    \/ SyncPostFail
    \/ SyncDecode
    \/ SyncLeafs
    \/ SyncLeafsFail
    \/ SyncReturn

SpecSync == InitAdmin /\ [][NextSync]_vars

\* One uploader that puts streams through PutReader
NextWrite ==
    \/ \E S \in Streams : PutReader(S)
    \/ \E len \in 1..MaxStreamLen : WriteReaderNext(len)
    \/ WriteReaderEOF
    \/ WriteReaderStat
    \/ WriteReaderStatFail
    \/ WriteReaderPut
    \/ WriteReaderPutFail
    \/ AddIndexedRef
    \/ PutReaderStat
    \/ PutReaderStatFail
    \/ PutReaderPut
    \/ PutReaderPutFail

SpecWrite == InitAdmin /\ [][NextWrite]_vars

\* One uploader whose readers may fail
NextRead ==
    \/ NextWrite
    \/ WriteReaderNextErr

SpecRead == InitAdmin /\ [][NextRead]_vars

\* the steps of a Put that was called
PutSteps(p) ==
    \/ PutLock(p)
    \/ PutIncN(p)
    \/ PutWopen(p)
    \/ PutRopen(p)
    \/ PutSaveN(p)
    \/ PutSetPos(p)
    \/ PutWriteOk(p)
    \/ \E k \in ShortWrites : PutWriteFail(p, k)

\* the steps of the Enumerate goroutine; the send needs a receiver that reads
EnumerateSteps == EnumerateLock \/ EnumerateSend(1) \/ EnumerateEOF

\* One caller that starts Enumerate in a goroutine, reads its channel and
\* puts blobs while Enumerate runs
NextDrain ==
    \/ \E b \in Blobs : PutCall(1, Sum256(b), b)
    \/ PutSteps(1)
    \/ EnumerateGo(1)
    \/ EnumerateLock
    \/ EnumerateSend(1)
    \/ EnumerateEOF
    \/ ReceiverStops

\* the scheduler runs every goroutine that can run, and sync.Mutex hands
\* the lock to a waiter that would starve: a Put that can take its next step
\* again and again takes it, and the goroutine of Enumerate takes the step
\* it can take
SpecDrain ==
    InitAdmin /\ [][NextDrain]_vars /\ SF_vars(PutSteps(1)) /\ WF_vars(EnumerateSteps)

(***************************************************************************)
(* Properties                                                              *)
(***************************************************************************)
\* no call is in progress
AtRest == \A p \in Procs : pc[p] = "idle"

\* the labels of a Delete that has fetched its position record
DeleteLabels == {"del_open", "del_flag", "del_index", "del_punch"}

\* C1: once put(H(b), b) has returned success, a later get(H(b)) with no
\* delete(H(b)) in between returns exactly b: it does not report NotFound, and
\* a Get that has fetched the position record reads b.
C1_GetReturnsWhatPutStored ==
    /\ \A h \in Hashes :
         (~faulty /\ acked[h].kind = "put" /\ Sum256(acked[h].blob) = h) => Exists(h)
    /\ \A p \in Procs :
         (~faulty /\ pc[p] = "get_read" /\ expect[p].kind = "put"
            /\ Sum256(expect[p].blob) = hash[p])
         => GetOutcome(blobPos[p]) = [kind |-> "ok", blob |-> expect[p].blob]

\* C2: a Put of a hash that already has a position record is a no-op: up to
\* and including the step at which it would store a record, it changes no
\* container, no position record, not the current size and not n.
C2_PutOfPresentHashIsNoOp ==
    [][ \A p \in Procs :
          (pc[p] \in PutLabels \ {"put_write"} /\ Exists(hash[p]))
          => /\ disk' = disk
             /\ index' = index
             /\ size' = size
             /\ n' = n
             /\ indexN' = indexN ]_vars

\* C3: every position record (k, o, s) stored under h points at a completely
\* written frame of container k whose hash field is h and whose size field is
\* s, also in the state a Put has left whose write failed.
C3_RecordsPointAtFrames ==
    AtRest =>
      \A h \in DOMAIN index :
        LET fr == FrameAt(index[h])
        IN /\ Len(fr) = Overhead + index[h].size
           /\ Slice(fr, 0, hashSize) = h
           /\ Uint32(Slice(fr, hashSize + 1, Overhead)) = index[h].size

\* C4: a Get of a hash h that has a position record fails or returns bytes b
\* with H(b) = h, whatever hash the callers of Put passed with their data.
C4_GetReturnsBlobOfHash ==
    \A p \in Procs :
      pc[p] = "get_read" =>
        LET o == GetOutcome(blobPos[p])
        IN o.kind = "ok" => Sum256(o.blob) = hash[p]

\* C5: for one caller whose puts and deletes all succeeded, stat(h) is true
\* and get(h) returns the payload exactly when the last call on h was a put;
\* after a delete, and for a hash never stored, stat(h) is false and get(h)
\* reports NotFound.
C5_StatAndGetFollowLastCall ==
    (AtRest /\ ~faulty) =>
      \A h \in Hashes :
        IF acked[h].kind = "put"
        THEN /\ Exists(h)
             /\ GetOutcome(GetPos(h)) = [kind |-> "ok", blob |-> acked[h].blob]
        ELSE ~Exists(h)

\* a frame of h that Delete has flagged lies in some container
Tombstoned(h) ==
    \E k \in DOMAIN disk :
      \E o \in 0..Len(disk[k]) :
        ReadAt(disk[k], o, hashSize + 1) = h \o <<Deleted>>

\* C5 (case reached): h was stored, deleted and stored again, and is
\* retrievable
C5_RetrievableAgain ==
    \E h \in Hashes :
      /\ AtRest /\ ~faulty
      /\ Tombstoned(h)
      /\ acked[h].kind = "put"
      /\ GetOutcome(GetPos(h)).kind = "ok"

\* p is inside the critical section of a Put, or inside a Delete
Writing(p) == mutex = p \/ pc[p] \in DeleteLabels

\* C6: put, delete and rollover exclude each other: no Delete is at any of
\* its steps while a Put holds the store mutex, and no two of them overlap.
C6_WritersExclude ==
    \A p, q \in Procs : (p # q /\ Writing(p)) => ~Writing(q)

\* C7: a Get never holds a position record whose frame has not been written
\* completely, so a Get racing a Put does not end in a short read.
C7_ReaderSeesWholeFrames ==
    \A p \in Procs :
      (pc[p] = "get_read" /\ ~faulty)
      => Len(FrameAt(blobPos[p])) = Overhead + blobPos[p].size

\* the containers some handle is open on for writing
WriteOpen == {current.file} \cup {f[p].file : p \in {q \in Procs : f[q].own}}

C9_ContainersWithinMax ==
    ~faulty => \A k \in DOMAIN disk : Len(disk[k]) <= MaxBlobsFileSize

\* what holds at the steps of a Put that rolls over from container N
RolloverSteps(p) ==
    LET N == rolledFrom[p]
    IN /\ n = N + 1
       /\ mutex = p
       /\ pc[p] \in {"put_ropen", "put_saven", "put_setpos", "put_write"} =>
            /\ ReadAt(disk[N + 1], 0, Len(magic)) = magic
            /\ current.file = N + 1
       /\ pc[p] \in {"put_ropen", "put_saven", "put_setpos"} =>
            /\ disk[N + 1] = magic
            /\ size = Len(magic)
       /\ pc[p] \in {"put_saven", "put_setpos", "put_write"} => (N + 1) \in files
       /\ pc[p] \in {"put_setpos", "put_write"} => indexN = N + 1
       /\ pc[p] = "put_write" =>
            GetPos(hash[p]) = [n |-> N + 1, offset |-> Len(magic),
                               size |-> encodeBlob(data[p]).size]

\* at every step of a rollover what has been done so far holds; with the mutex
\* free the read handle of container n is installed; with no call in progress
\* the containers are blobs-0 .. blobs-n and n is persisted
RolloverInv ==
    /\ \A p \in Procs : rolledFrom[p] >= 0 => RolloverSteps(p)
    /\ mutex = Free => n \in files
    /\ AtRest => (DOMAIN disk = 0..n /\ indexN = n)

C11_ReindexRebuildsIndex ==
    (AtRest /\ ~faulty /\ altered = {}) =>
      /\ newBackend.kind = "ok"
      /\ newBackend.index = index

\* C12: a Get of a hash whose frame has an altered payload returns an error
\* (Corrupted or NotFound) to its caller; it neither returns bytes nor
\* panics.
C12_GetReportsCorruption ==
    \A p \in Procs :
      (pc[p] = "get_read" /\ blobPos[p] \in altered)
      => GetOutcome(blobPos[p]).kind \in {"err", "notfound"}

\* the scan reindex runs when New has opened the blobs files
scanAtLoad == scan(0..(loadOpen(0) - 1), << >>)

\* the flags byte of the frame at pos
FlagsAt(pos) == disk[pos.n][pos.offset + hashSize + 1]

\* the elements of a sequence
Range(seq) == {seq[i] : i \in 1..Len(seq)}

\* C13: scan makes a full pass: it never stops with an error in the middle,
\* ends with a Corruption error exactly when it has recorded positions, the
\* positions it records are those of the frames not flagged deleted whose
\* payload was altered, and every frame with a position record is handed to
\* iter_fn or recorded.
C13_ScanMakesFullPass ==
    (AtRest /\ ~faulty) =>
      /\ scanAtLoad.kind = (IF scanAtLoad.corrupted = <<>> THEN "ok" ELSE "corrupted")
      /\ Range(scanAtLoad.corrupted) = {pos \in altered : FlagsAt(pos) # Deleted}
      /\ \A h \in DOMAIN index :
           \/ index[h] \in Range(scanAtLoad.corrupted)
           \/ \E i \in 1..Len(scanAtLoad.iter) : scanAtLoad.iter[i].pos = index[h]

\* C14: reindex on a store whose index holds a position record returns a
\* Policy error to its caller and leaves the index unchanged (it writes to no
\* container).
C14_ReindexRefused ==
    (AtRest /\ DOMAIN index # {}) =>
      /\ reindex(n, files, rpos, index, indexN, BackendLen).kind = "err"
      /\ reindex(n, files, rpos, index, indexN, BackendLen).index = index

\* the strings of a sequence of strings rise strictly in bytes.Compare order
StrictlyAscending(strs) ==
    \A i \in 1..Len(strs) : \A j \in 1..Len(strs) :
        i < j => bytesCompare(strs[i], strs[j]) < 0

WrittenAfter(a, b) == a.n > b.n \/ (a.n = b.n /\ a.offset > b.offset)

SentHashes == [i \in 1..Len(enum.blobs) |-> enum.blobs[i].Hash]

\* C16: Enumerate2(start, end, limit) sends, in ascending order, only hashes
\* h with start <= h < end, and with limit 0 every such hash of the index.
C16_RangeIsStartToEnd ==
    (pc[1] = "enum_sent" /\ enum.call = "Enumerate2") =>
      /\ StrictlyAscending(SentHashes)
      /\ \A i \in 1..Len(SentHashes) :
           /\ bytesCompare(enum.start, SentHashes[i]) <= 0
           /\ bytesCompare(SentHashes[i], enum.end) < 0
      /\ enum.limit = 0 =>
           \A h \in DOMAIN index :
             (/\ bytesCompare(enum.start, HexEncode(h)) <= 0
              /\ bytesCompare(HexEncode(h), enum.end) < 0)
             => HexEncode(h) \in Range(SentHashes)

\* C17: Enumerate2 with limit > 0 sends at most limit hashes.
C17_AtMostLimit ==
    (pc[1] = "enum_sent" /\ enum.call = "Enumerate2" /\ enum.limit > 0)
    => Len(enum.blobs) <= enum.limit

\* the Compressed bit of the flags byte fl
CompressedBit(fl) == (fl \div Compressed) % 2 = 1

\* C18: in every frame Put has written, the Compressed bit of the flags byte
\* is set exactly when the payload is Snappy-encoded: with compression on
\* the bit is set, with compression off it is clear and the payload is the
\* blob itself.
C18_CompressedBitTellsEncoding ==
    (AtRest /\ ~faulty) =>
      \A h \in DOMAIN index :
        /\ CompressedBit(FlagsAt(index[h])) <=> snappyCompression
        /\ ~snappyCompression =>
             Sum256(Slice(FrameAt(index[h]), Overhead, Overhead + index[h].size)) = h

\* C19: two states built from the same set of hashes have the same root and
\* the same leafs, in whatever order the hashes were added to each tree.
C19_TreeIsDeterministic ==
    \A t \in Replicas, u \in Replicas :
      (tree[t].built /\ tree[u].built /\ ns[t] = ns[u]) =>
        /\ tree[t].root = tree[u].root
        /\ tree[t].leafs = tree[u].leafs

\* the strings of a sequence of strings, one after the other
RECURSIVE Concat(_)
Concat(strs) == IF strs = <<>> THEN <<>> ELSE Head(strs) \o Concat(Tail(strs))

\* the strings of strs that begin with p
WithPrefix(strs, p) ==
    LET Begins(x) == SubSeq(x, 1, Len(p)) = p
    IN SelectSeq(strs, Begins)

\* C20: in the State built for a namespace holding the hash set X, leafs has
\* a key p exactly for the two-character prefixes of the hashes of X, leafs[p]
\* is the digest of the concatenation of exactly the hashes of X that begin
\* with p, root is the digest of the concatenation of all hashes of X (both
\* in the order the hashes were read), and count is the number of hashes.
C20_StateSummarisesNamespace ==
    \A t \in Replicas :
      tree[t].built =>
        /\ Range(tree[t].read) = ns[t]
        /\ Len(tree[t].read) = Cardinality(ns[t])
        /\ DOMAIN tree[t].leafs = {SubSeq(x, 1, 2) : x \in ns[t]}
        /\ \A p \in DOMAIN tree[t].leafs :
             tree[t].leafs[p] = HexEncode(Sum256(Concat(WithPrefix(tree[t].read, p))))
        /\ tree[t].root = HexEncode(Sum256(Concat(tree[t].read)))
        /\ tree[t].count = Cardinality(ns[t])

\* a State was built for a namespace with two hashes in one bucket and a
\* third hash in another
C20_BucketOfTwo ==
    \E t \in Replicas :
      /\ tree[t].built
      /\ Cardinality(ns[t]) = 3
      /\ Cardinality(DOMAIN tree[t].leafs) = 2

\* C21: syncHandler answers 204 without a body exactly when the root of the
\* posted State equals the root of its own State, and otherwise 200 with
\* the lists conflicted, needed and missing; when it answers 204 the two
\* replicas hold the same set of hashes.
C21_NoContentWhenRootsEqual ==
    stc.pc = "responded" =>
      /\ resp.code = 204 <=> posted.root = resp.local.root
      /\ resp.code = 204 => (resp.body = NoBody /\ ns[Client] = ns[Server])
      /\ resp.code # 204 =>
           (resp.code = 200 /\ DOMAIN resp.body = {"conflicted", "needed", "missing"})

\* a POST of a State of two hashes or more was answered with 204
C21_InSyncAnswered ==
    /\ stc.pc = "responded"
    /\ resp.code = 204
    /\ posted.count >= 2

\* the bucket prefixes only the posted State (of A) has
OnlyPosted == DOMAIN posted.leafs \ DOMAIN resp.local.leafs

\* the bucket prefixes only the State of the answering replica (B) has
OnlyLocal == DOMAIN resp.local.leafs \ DOMAIN posted.leafs

\* the bucket prefixes both States have, with different bucket hashes
InBothDiffering ==
    {p \in DOMAIN posted.leafs \cap DOMAIN resp.local.leafs :
       posted.leafs[p] # resp.local.leafs[p]}

UnionBefore == stc.before[Client] \cup stc.before[Server]

\* C23: after a reconciliation that ran to its end with no write meanwhile,
\* both replicas hold the union of their two initial sets and the next POST
\* of the client's State is answered with 204.
C23_SyncConverges ==
    (stc.pc = "done" /\ ~stc.err) =>
      /\ ns[Client] = UnionBefore
      /\ ns[Server] = UnionBefore
      /\ \A ha \in Namespace(ns[Client]), hb \in Namespace(ns[Server]) :
           inSync(NewState(generateTree(NewStateTree, hb)),
                  NewState(generateTree(NewStateTree, ha)))

\* C24: every prefix the response lists under needed or under conflicted is
\* in the client's list of the same name, and when Sync returns without
\* error the client has asked for the hash list of each of them.
C24_ListedPrefixesReachClient ==
    /\ stc.pc = "leafs" =>
         /\ Range(stc.sr.Needed) = Range(resp.body.needed)
         /\ Range(stc.sr.Conflicted) = Range(resp.body.conflicted)
    /\ (stc.pc = "done" /\ ~stc.err /\ resp.code = 200) =>
         (Range(resp.body.needed) \cup Range(resp.body.conflicted)) \subseteq Range(stc.asked)

\* C25: at every step of a reconciliation, interrupted or not, each replica
\* holds at least the hashes it held when Sync was called and at most the
\* union of what the two replicas held then.
C25_PartialSyncIsSafe ==
    stc.pc # "idle" =>
      \A t \in Replicas :
        /\ stc.before[t] \subseteq ns[t]
        /\ ns[t] \subseteq UnionBefore

\* a Sync between replicas with different sets was interrupted by a failing
\* Leafs request
C25_Interrupted ==
    /\ stc.pc = "done"
    /\ stc.err
    /\ stc.asked # <<>>
    /\ ns[Client] # ns[Server]

\* the prefixes a response lists
Listed ==
    IF resp.code = 200
    THEN Range(resp.body.conflicted) \cup Range(resp.body.needed)
           \cup Range(resp.body.missing)
    ELSE {}

\* C26: a prefix is listed under conflicted, needed or missing exactly when
\* one State only has it or the bucket hashes differ; the three lists are
\* disjoint and hold no prefix twice; the client asks for the hash list of
\* listed prefixes only.
C26_OnlyDisagreeingBuckets ==
    /\ resp.code = 200 =>
         /\ Listed = OnlyPosted \cup OnlyLocal \cup InBothDiffering
         /\ Len(resp.body.conflicted) + Len(resp.body.needed) + Len(resp.body.missing)
              = Cardinality(Listed)
    /\ Range(stc.asked) \subseteq Listed

\* the client has asked for a listed bucket while both States have another
\* bucket with the same hash
C26_MatchingBucketSkipped ==
    /\ stc.asked # <<>>
    /\ \E p \in DOMAIN posted.leafs \cap DOMAIN resp.local.leafs :
         posted.leafs[p] = resp.local.leafs[p]

\* PutReader has returned a node
Returned == wr.pc = "done" /\ wr.ret = "ok"

\* the blobs the refs of a node name, in list order; a ref whose hash the
\* store does not hold names nothing
RefData(refs) ==
    [i \in 1..Len(refs) |-> IF refs[i].hash \in DOMAIN bs THEN bs[refs[i].hash] ELSE <<>>]

\* C27: for every stream S, the empty one included, PutReader returns a node
\* whose refs, in list order, name stored chunks that concatenate to S, whose
\* Size is the length of S and whose ContentHash is the hex digest of S.
C27_NodeDescribesStream ==
    Returned =>
      /\ \A i \in 1..Len(wr.meta.Refs) : wr.meta.Refs[i].hash \in DOMAIN bs
      /\ Concat(RefData(wr.meta.Refs)) = wr.input
      /\ wr.meta.Size = Len(wr.input)
      /\ wr.meta.ContentHash = HexEncode(Sum256(wr.input))

\* a node with two refs to chunks that differ was returned
C27_TwoChunks ==
    /\ Returned
    /\ Len(wr.meta.Refs) = 2
    /\ wr.meta.Refs[1].hash # wr.meta.Refs[2].hash

\* C28: PutReader puts a chunk or the node only when Stat of its hash
\* returned false, and once it has put the node the store holds every chunk
\* the refs of the node name.
C28_PutAfterStatAndChunksFirst ==
    /\ \A p \in wr.puts : ~p.exists
    /\ \A p \in wr.puts :
         p.meta => \A i \in 1..Len(wr.meta.Refs) : wr.meta.Refs[i].hash \in DOMAIN bs
    /\ (wr.pc \in {"next", "stat", "put", "ref", "mstat", "mput"} /\ wr.mhash # <<>>)
         => (wr.pc \in {"mstat", "mput"} /\ wr.rest = <<>>)
    /\ wr.pc = "mput" =>
         \A i \in 1..Len(wr.meta.Refs) : wr.meta.Refs[i].hash \in DOMAIN bs

\* the node was put while a chunk it names was in the store before and was
\* not put again
C28_NodePutChunkSkipped ==
    /\ \E p \in wr.puts : p.meta
    /\ \E i \in 1..Len(wr.meta.Refs) :
         \A p \in wr.puts : p.hash # wr.meta.Refs[i].hash

\* C29: when Stat or Put of a chunk fails, PutReader returns an error to its
\* caller, without a panic, and the store holds no node for the stream.
C29_ChunkErrorsAreReturned ==
    wr.failed \in {"stat", "put"} => (wr.pc = "done" /\ wr.ret = "err")

\* C30: when the chunker reports an error other than io.EOF, the loop of
\* writeReader stops and the error is returned; no ref is recorded for a
\* chunk that was not read.
C30_ReadErrorEndsLoop ==
    wr.readErr => (wr.pc = "done" /\ wr.ret = "err")

\* the total length of the chunks the first i refs name
RECURSIVE ChunksLen(_, _)
ChunksLen(refs, i) ==
    IF i = 0 THEN 0 ELSE ChunksLen(refs, i - 1) + Len(RefData(refs)[i])

\* the first ref whose offset is greater than the byte position p, 0 if none
FirstAfter(refs, p) ==
    IF \E i \in 1..Len(refs) : refs[i].offset > p
    THEN CHOOSE i \in 1..Len(refs) :
           /\ refs[i].offset > p
           /\ \A j \in 1..(i - 1) : refs[j].offset <= p
    ELSE 0

\* C31: the offsets of the refs of the node writeReader builds are end
\* offsets: the i-th is the total length of the chunks up to it, they are
\* strictly increasing, the first ref whose offset is greater than a byte
\* position is the chunk that holds that byte, and the last is meta.Size.
C31_RefOffsetsAreEndOffsets ==
    /\ \A i \in 1..Len(wr.meta.Refs) :
         /\ wr.meta.Refs[i].offset = ChunksLen(wr.meta.Refs, i)
         /\ i > 1 => wr.meta.Refs[i - 1].offset < wr.meta.Refs[i].offset
    /\ Returned =>
         /\ wr.meta.Refs # <<>> => wr.meta.Refs[Len(wr.meta.Refs)].offset = wr.meta.Size
         /\ \A p \in 0..(wr.meta.Size - 1) :
              \E i \in {FirstAfter(wr.meta.Refs, p)} :
                 /\ i > 0
                 /\ ChunksLen(wr.meta.Refs, i - 1) <= p
                 /\ RefData(wr.meta.Refs)[i][p - ChunksLen(wr.meta.Refs, i - 1) + 1]
                      = wr.input[p + 1]

\* the position record pos stored under h names a whole frame of h
PointsAtFrame(h, pos) ==
    /\ Len(FrameAt(pos)) = Overhead + pos.size
    /\ Slice(FrameAt(pos), 0, hashSize) = h
    /\ Uint32(Slice(FrameAt(pos), hashSize + 1, Overhead)) = pos.size

\* the places of the flags byte and of the payload of the frame pos names,
\* counted from 1
FlagAndPayload(pos) ==
    {pos.offset + hashSize + 1} \cup
    ((pos.offset + Overhead + 1)..(pos.offset + Overhead + pos.size))

\* C32: no step takes a container away, shortens it or changes a byte it
\* holds, but a Delete of h that changes the flags byte or the payload of the
\* frame of h its position record names; and a position record changes only
\* under the hash of the Put that sets it or of the Delete that removes it.
C32_CommittedBytesStay ==
    [][ /\ \A k \in DOMAIN disk :
             /\ k \in DOMAIN disk'
             /\ Len(disk'[k]) >= Len(disk[k])
             /\ \A i \in 1..Len(disk[k]) :
                  disk'[k][i] # disk[k][i] =>
                    \E p \in Procs :
                       /\ pc[p] \in {"del_flag", "del_punch"}
                       /\ pc'[p] # pc[p]
                       /\ blobPos[p].n = k
                       /\ PointsAtFrame(hash[p], blobPos[p])
                       /\ i \in FlagAndPayload(blobPos[p])
        /\ \A h \in DOMAIN index \cup DOMAIN index' :
             (IF h \in DOMAIN index' THEN index'[h] ELSE NilPos) # GetPos(h) =>
               \E p \in Procs :
                  /\ hash[p] = h
                  /\ pc[p] \in {"put_setpos", "del_index"}
                  /\ pc'[p] # pc[p]
      ]_vars

\* C33: a Delete that has written the Deleted flag and removed the position
\* record returns nil, whether the hole was punched or not.
C33_PunchIsBestEffort ==
    [][ \A p \in Procs :
          (pc[p] = "del_punch" /\ pc'[p] = "idle") => ret'[p] = "ok" ]_vars

\* C34: when the reindex of New ends with an error, the index it leaves in
\* the directory holds no position record, so that the next New does not
\* take it for a complete index.
C34_ReindexIsAllOrNothing ==
    AtRest => (newBackend.kind # "ok" => newBackend.index = << >>)

\* C35: a Put that is called while an Enumerate is running returns, also
\* when the receiver of the channel calls it between two hashes or after it
\* has stopped reading.
C35_PutReturnsDuringEnumerate ==
    \A p \in Procs : (pc[p] = "put_lock" /\ ch.pc # "idle") ~> (pc[p] = "idle")

(***************************************************************************)
(* pkg/filetree/filetree.go: the FS of the filetree extension. A meta is   *)
(* a blob of the blob store (bs), named by the hash of its serialisation;  *)
(* a dir's refs are the hashes of its children, a file's refs are          *)
(* (end offset, chunk hash) pairs. A name is the sequence of its bytes.    *)
(***************************************************************************)
\* the longest path of a request, in components
MaxDepth == 2

\* the names of path components: "a" and "b"
Names == {<< 97 >>, << 98 >>}

\* the paths of requests below the root, split on "/"
FsPaths == UNION {[1..d -> Names] : d \in 1..MaxDepth}

\* the contents of uploaded files
FsStreams == {<< 0 >>, << 1 >>}

\* the POST requests of a behaviour, by number; the number is the clock too
Posts == {1, 2}

\* meta.NewMeta: an empty meta, without a hash
NewMeta ==
    [Name |-> <<>>, Type |-> "", Size |-> 0, ModTime |-> 0, Public |-> FALSE,
     Refs |-> <<>>, Hash |-> <<>>]

\* "_root"
RootName == << 95, 114, 111, 111, 116 >>

\* the type of a meta as one byte: 'd' for "dir", 'f' for "file"
TypeByte(t) == IF t = "dir" THEN 100 ELSE IF t = "file" THEN 102 ELSE 0

\* the refs of a meta written one after the other, each after its length
RECURSIVE encodeItems(_)
encodeItems(refs) ==
    IF refs = <<>> THEN <<>>
    ELSE << Len(Head(refs)) >> \o Head(refs) \o encodeItems(Tail(refs))

\* Meta.Json: the serialised meta (without its hash) and the hash of it
Json(m) ==
    CHOOSE res \in {[hash |-> Compute(js), data |-> js] :
                      js \in {<< TypeByte(m.Type), Len(m.Name) >> \o m.Name
                              \o << m.Size, m.ModTime, IF m.Public THEN 1 ELSE 0,
                                    Len(m.Refs) >>
                              \o encodeItems(m.Refs)}} : TRUE

\* k refs read off the front of b
RECURSIVE decodeItems(_, _)
decodeItems(b, k) ==
    IF k = 0 THEN <<>>
    ELSE << SubSeq(b, 2, 1 + b[1]) >> \o decodeItems(SubSeq(b, 2 + b[1], Len(b)), k - 1)

\* whether a blob is a serialised meta: a chunk of a file is not
IsMeta(blob) ==
    /\ Len(blob) >= 6
    /\ blob[1] \in {TypeByte("dir"), TypeByte("file")}
    /\ Len(blob) >= 6 + blob[2]

\* meta.NewMetaFromBlob(hash, blob) for a blob that is a meta
NewMetaFromBlob(h, blob) ==
    CHOOSE res \in {[Name |-> SubSeq(blob, 3, 2 + l),
                     Type |-> IF blob[1] = TypeByte("dir") THEN "dir" ELSE "file",
                     Size |-> blob[3 + l], ModTime |-> blob[4 + l],
                     Public |-> blob[5 + l] = 1,
                     Refs |-> decodeItems(SubSeq(blob, 7 + l, Len(blob)), blob[6 + l]),
                     Hash |-> h] : l \in {blob[2]}} : TRUE

\* Meta.IsPublic: the xattr public=1
IsPublic(m) == m.Public

\* Meta.IsDir
IsDir(m) == m.Type = "dir"

\* metaToNode
metaToNode(m) ==
    [Name |-> m.Name, Type |-> m.Type, Size |-> m.Size, ModTime |-> m.ModTime,
     Hash |-> m.Hash, Children |-> <<>>, meta |-> m]

\* nodeByRef(hash) over the blob store: [err, node]
nodeByRef(store, h) ==
    IF h \notin DOMAIN store THEN [err |-> "ErrBlobNotFound", node |-> metaToNode(NewMeta)]
    ELSE IF ~IsMeta(store[h]) THEN [err |-> "invalid meta", node |-> metaToNode(NewMeta)]
    ELSE [err |-> "", node |-> metaToNode(NewMetaFromBlob(h, store[h]))]

\* fetchDir(n, 1, 1): the children of a dir, one nodeByRef per ref
fetchDir(store, nd) ==
    IF nd.Type # "dir" THEN [err |-> "", node |-> nd]
    ELSE CHOOSE res \in
           {IF \E i \in DOMAIN cs : cs[i].err # ""
            THEN [err |-> cs[CHOOSE i \in DOMAIN cs :
                                /\ cs[i].err # ""
                                /\ \A j \in 1..(i - 1) : cs[j].err = ""].err,
                  node |-> nd]
            ELSE [err |-> "", node |-> [nd EXCEPT !.Children = [i \in DOMAIN cs |-> cs[i].node]]] :
              cs \in {[i \in 1..Len(nd.meta.Refs) |-> nodeByRef(store, nd.meta.Refs[i])]}} : TRUE

\* FS.Root(create): the node of fs.Ref, a new unsaved "_root" dir if the
\* blob is missing and create is set
fsRoot(store, ref, create) ==
    CHOOSE res \in
      {IF r.err = "ErrBlobNotFound" /\ create
       THEN [err |-> "", node |-> metaToNode([NewMeta EXCEPT !.Type = "dir", !.Name = RootName])]
       ELSE r : r \in {nodeByRef(store, ref)}} : TRUE

\* the first child of nd with the name p, 0 if there is none
childNamed(nd, p) ==
    IF \E i \in DOMAIN nd.Children : nd.Children[i].Name = p
    THEN CHOOSE i \in DOMAIN nd.Children :
           /\ nd.Children[i].Name = p
           /\ \A j \in 1..(i - 1) : nd.Children[j].Name # p
    ELSE 0

\* the loop of FS.Path over the split path: chain holds the nodes from the
\* root to the current node, each the parent of the next
RECURSIVE PathLoop(_, _, _, _)
PathLoop(store, chain, rest, create) ==
    IF rest = <<>> THEN [err |-> "", chain |-> chain]
    ELSE CHOOSE res \in
      {IF idx # 0
       THEN CHOOSE res2 \in
              {IF r.err # "" THEN [err |-> r.err, chain |-> chain]
               ELSE CHOOSE res3 \in
                      {IF fd.err # "" THEN [err |-> fd.err, chain |-> chain]
                       ELSE PathLoop(store, Append(chain, fd.node), Tail(rest), create) :
                         fd \in {fetchDir(store, r.node)}} : TRUE :
                 r \in {nodeByRef(store, chain[Len(chain)].Children[idx].Hash)}} : TRUE
       ELSE IF ~create THEN [err |-> "ErrBlobNotFound", chain |-> chain]
       ELSE PathLoop(store,
                     Append(chain, metaToNode([NewMeta EXCEPT
                                                 !.Name = Head(rest),
                                                 !.Type = IF Len(rest) = 1 THEN "file"
                                                          ELSE "dir"])),
                     Tail(rest), create) :
         idx \in {childNamed(chain[Len(chain)], Head(rest))}} : TRUE

\* FS.Path(path, create): [err, chain]; the node is the last of the chain
Path(store, ref, path, create) ==
    CHOOSE res \in
      {IF root.err # "" THEN [err |-> root.err, chain |-> <<>>]
       ELSE CHOOSE res2 \in
              {IF fd.err # "" THEN [err |-> fd.err, chain |-> <<>>]
               ELSE PathLoop(store, << fd.node >>, path, create) :
                 fd \in {fetchDir(store, root.node)}} : TRUE :
         root \in {fsRoot(store, ref, create)}} : TRUE

\* the hashes of nodes
hashesOf(nodes) == [i \in DOMAIN nodes |-> nodes[i].Hash]

\* FileTreeExt.Update(n, m) with n = chain[k]: the parent object is changed
\* in place (its meta's refs and modtime, its children, its hash), saved, and
\* Update is called on it; at the root fs.Ref is set and saved in the kv store
RECURSIVE Update(_, _, _, _, _)
Update(store, chain, k, m, now) ==
    IF k = 1
    THEN [store |-> store, Ref |-> m.Hash, chain |-> chain, node |-> metaToNode(m)]
    ELSE CHOOSE res \in
      {[up EXCEPT !.node = metaToNode(m)] :
         up \in {Update((par.Hash :> Json(par.meta).data) @@ store,
                        [chain EXCEPT ![k - 1] = par], k - 1, par.meta, now) :
                   par \in {[chain[k - 1] EXCEPT
                               !.Children = << metaToNode(m) >> \o kept,
                               !.Hash = Json(pm).hash,
                               !.meta = [pm EXCEPT !.Hash = Json(pm).hash]] :
                              pm \in {[chain[k - 1].meta EXCEPT
                                         !.Refs = << m.Hash >> \o hashesOf(kept),
                                         !.ModTime = now] :
                                        kept \in {SelectSeq(chain[k - 1].Children,
                                                            LAMBDA c : c.Hash # chain[k].Hash)}},
                              kept \in {SelectSeq(chain[k - 1].Children,
                                                  LAMBDA c : c.Hash # chain[k].Hash)}}}} : TRUE

\* Uploader.PutReader(name, file) of a file of one chunk: the meta of the file
uploadMeta(name, S) ==
    CHOOSE res \in
      {[m EXCEPT !.Hash = Json(m).hash] :
         m \in {[NewMeta EXCEPT !.Name = name, !.Type = "file", !.Size = Len(S),
                                !.Refs = << << Len(S) >> \o Compute(S) >>]}} : TRUE

\* httputil.WriteJSON(w, node): the node with the refs of its children
WriteJSON(nd) ==
    [status |-> 200, type |-> "application/json",
     body |-> Json(nd.meta).data \o nd.Hash \o encodeItems(hashesOf(nd.Children)),
     panic |-> FALSE]

\* a handler that panics: net/http closes the connection without a response
Panics == [NoReply EXCEPT !.panic = TRUE]

\* fsHandler, POST /fs/{name}/{path} with a file holding S: Path with create,
\* PutReader, Update, and the new node as JSON
FsPost(path, S) ==
    /\ ftx.posts + 1 \in Posts
    /\ \E res \in {Path(bs, ftx.Ref, path, TRUE)} :
         IF res.err # ""
         THEN /\ ftx' = [NoFs EXCEPT !.Ref = ftx.Ref, !.posts = ftx.posts + 1,
                                     !.method = "POST", !.path = path, !.reply = Panics]
              /\ bs' = bs
         ELSE \E m \in {uploadMeta(path[Len(path)], S)} :
              \E up \in {Update((m.Hash :> Json(m).data) @@ (Compute(S) :> S) @@ bs,
                                res.chain, Len(res.chain), m, ftx.posts + 1)} :
                /\ bs' = up.store
                /\ ftx' = [NoFs EXCEPT !.Ref = up.Ref, !.posts = ftx.posts + 1,
                                       !.method = "POST", !.path = path,
                                       !.reply = WriteJSON(up.node), !.found = TRUE,
                                       !.chain = up.chain, !.old = res.chain,
                                       !.node = up.node]
    /\ UNCHANGED << app, pl, chanVars, wr, treeVars, adminVars, snappyCompression,
                    disk, n, current, size, files, index, indexN, mutex, pc, hash, data,
                    blobPos, f, ret, rolledFrom, budget, acked, expect, faulty >>

\* fsHandler, GET or HEAD /fs/{name}/{path}: Path without create, then the
\* switch on its error: ErrBlobNotFound is a 404, every other value of err,
\* nil too, is the default case: panic(err)
FsGet(method, path) ==
    /\ \E res \in {Path(bs, ftx.Ref, path, FALSE)} :
         ftx' = [NoFs EXCEPT !.Ref = ftx.Ref, !.posts = ftx.posts,
                             !.method = method, !.path = path,
                             !.found = (res.err = ""),
                             !.node = IF res.err = "" THEN res.chain[Len(res.chain)]
                                      ELSE <<>>,
                             !.reply = IF res.err = "ErrBlobNotFound"
                                       THEN [NoReply EXCEPT !.status = 404]
                                       ELSE Panics]
    /\ UNCHANGED << app, pl, chanVars, writerVars, treeVars, adminVars, snappyCompression,
                    disk, n, current, size, files, index, indexN, mutex, pc, hash, data,
                    blobPos, f, ret, rolledFrom, budget, acked, expect, faulty >>

\* notFound(w): WriteHeader(404), the Content-Type set on the header map the
\* server still reads at the first Write, and the page
\* "<!doctype html><title>BlobStash</title><p>Not Found</p>\n"
notFound ==
    [status |-> 404, type |-> "text/html; charset=utf-8", panic |-> FALSE,
     body |->
    << 60, 33, 100, 111, 99, 116, 121, 112, 101, 32, 104, 116, 109, 108,
       62, 60, 116, 105, 116, 108, 101, 62, 66, 108, 111, 98, 83, 116, 97,
       115, 104, 60, 47, 116, 105, 116, 108, 101, 62, 60, 112, 62, 78, 111,
       116, 32, 70, 111, 117, 110, 100, 60, 47, 112, 62, 10 >>]

\* the data of the chunks a file's refs name, in order
RECURSIVE fileData(_, _)
fileData(store, refs) ==
    IF refs = <<>> THEN <<>>
    ELSE (IF Tail(Head(refs)) \in DOMAIN store THEN store[Tail(Head(refs))] ELSE <<>>)
         \o fileData(store, Tail(refs))

\* serveFile(w, r, hash): bewit says whether bewit.Validate accepts the
\* request, auth what authFunc answers
serveFile(store, h, bewit, auth) ==
    IF h \notin DOMAIN store THEN [NoReply EXCEPT !.status = 404]
    ELSE IF ~IsMeta(store[h]) THEN Panics
    ELSE CHOOSE res \in
      {IF ~(bewit \/ IsPublic(m)) /\ ~auth THEN notFound
       ELSE IF IsDir(m) THEN Panics
       ELSE [status |-> 200, type |-> "application/octet-stream",
             body |-> fileData(store, m.Refs), panic |-> FALSE] :
         m \in {NewMetaFromBlob(h, store[h])}} : TRUE

\* a hash no blob of the store has
MissingHash == Compute(<< 9 >>)

\* fileHandler, GET /file/{ref}
ServeFile(h, bewit, auth) ==
    /\ ftx' = [NoFs EXCEPT !.Ref = ftx.Ref, !.posts = ftx.posts, !.method = "FILE",
                           !.hash = h, !.found = (h \in DOMAIN bs),
                           !.reply = serveFile(bs, h, bewit, auth)]
    /\ UNCHANGED << app, pl, chanVars, writerVars, treeVars, adminVars, snappyCompression,
                    disk, n, current, size, files, index, indexN, mutex, pc, hash, data,
                    blobPos, f, ret, rolledFrom, budget, acked, expect, faulty >>

\* the requests to the filetree extension
NextFs ==
    \/ \E path \in FsPaths, S \in FsStreams : FsPost(path, S)
    \/ \E method \in {"GET", "HEAD"}, path \in FsPaths \cup {<<>>} : FsGet(method, path)
    \/ \E h \in DOMAIN bs \cup {MissingHash}, bewit \in BOOLEAN, auth \in BOOLEAN :
         ServeFile(h, bewit, auth)

SpecFs == InitFront /\ [][NextFs]_vars

\* the meta the store holds under h
storedMeta(h) == NewMetaFromBlob(h, bs[h])

\* the hash of the i-th node on the path of the last POST after Update: the
\* rewritten ancestors and, last, the new node
newHash(i) == IF i = Len(ftx.chain) THEN ftx.node.Hash ELSE ftx.chain[i].Hash

\* C36: after a POST has replaced the node at its path, fs.Ref names the new
\* root; every ancestor on the path is in the blob store, its refs hold the
\* new hash of its child on the path, no longer the hash that child had
\* before, and exactly one entry of the child's name.
C36_UpdateRewritesEveryAncestor ==
    (ftx.method = "POST" /\ ftx.found) =>
        /\ ftx.Ref = newHash(1)
        /\ \A i \in 1..(Len(ftx.chain) - 1) :
             /\ newHash(i) \in DOMAIN bs
             /\ IsMeta(bs[newHash(i)])
             /\ \E refs \in {storedMeta(newHash(i)).Refs} :
                  /\ \E j \in DOMAIN refs : refs[j] = newHash(i + 1)
                  /\ ftx.old[i + 1].Hash # newHash(i + 1) =>
                       \A j \in DOMAIN refs : refs[j] # ftx.old[i + 1].Hash
                  /\ Cardinality({j \in DOMAIN refs :
                                    /\ refs[j] \in DOMAIN bs
                                    /\ IsMeta(bs[refs[j]])
                                    /\ storedMeta(refs[j]).Name = ftx.path[i]}) = 1

\* a POST has replaced an existing file two levels below the root
C36_Replaced ==
    /\ ftx.method = "POST" /\ ftx.found
    /\ Len(ftx.path) = 2
    /\ ftx.old[3].Hash # <<>>
    /\ ftx.old[3].Hash # ftx.node.Hash

\* C37: a request to the file handler with no valid bewit that fails authFunc
\* gets the same response for the hash of a non-public node the store holds as
\* for a hash the store does not hold.
C37_FileHandlerHidesHashes ==
    \A h \in DOMAIN bs :
        (IsMeta(bs[h]) /\ ~IsPublic(storedMeta(h))) =>
            serveFile(bs, h, FALSE, FALSE) = serveFile(bs, MissingHash, FALSE, FALSE)

\* C40: a GET or HEAD whose path resolves is answered with success, the
\* node as JSON for a GET and no body for a HEAD, never by the error branch;
\* a 404 is the answer only to a path that does not resolve.
C40_GetAnswersResolvedPaths ==
    (ftx.method \in {"GET", "HEAD"}) =>
        /\ ftx.found =>
             /\ ~ftx.reply.panic
             /\ ftx.reply.status = 200
             /\ ftx.reply.body = IF ftx.method = "GET" THEN WriteJSON(ftx.node).body
                                 ELSE <<>>
        /\ ftx.reply.status = 404 => ~ftx.found

(***************************************************************************)
(* pkg/apps/apps.go: App.serve. A path is the sequence of its bytes.       *)
(***************************************************************************)
\* the longest request path after the leading "/"
MaxPathLen == 4

\* the bytes of request paths: '/', '.', 'a' and '\'
PathBytes == {47, 46, 97, 92}

\* the paths the handlers give to serve: "/" + vars["path"], or r.URL.Path
AppPaths == {<< 47 >> \o t : t \in UNION {[1..l -> PathBytes] : l \in 0..MaxPathLen}}

\* what an App serves with: app.proxy, else app.app, else neither
AppKinds == {"proxy", "app", "none"}

\* strings.FieldsFunc(v, f) for f true on the bytes of seps: the non-empty
\* runs of other bytes; cur is the run being read
RECURSIVE FieldsFunc(_, _, _)
FieldsFunc(v, cur, seps) ==
    IF v = <<>> THEN (IF cur = <<>> THEN <<>> ELSE << cur >>)
    ELSE IF Head(v) \in seps
    THEN (IF cur = <<>> THEN <<>> ELSE << cur >>) \o FieldsFunc(Tail(v), <<>>, seps)
    ELSE FieldsFunc(Tail(v), Append(cur, Head(v)), seps)

\* path.Clean over the elements between slashes: "." is dropped, ".." drops
\* the element before it, is dropped at the root of a rooted path and kept
\* at the front of any other path
RECURSIVE CleanLoop(_, _, _)
CleanLoop(elems, out, rooted) ==
    IF elems = <<>> THEN out
    ELSE IF Head(elems) = << 46 >> THEN CleanLoop(Tail(elems), out, rooted)
    ELSE IF Head(elems) = << 46, 46 >>
    THEN IF out # <<>> /\ out[Len(out)] # << 46, 46 >>
         THEN CleanLoop(Tail(elems), SubSeq(out, 1, Len(out) - 1), rooted)
         ELSE IF rooted THEN CleanLoop(Tail(elems), out, rooted)
         ELSE CleanLoop(Tail(elems), Append(out, Head(elems)), rooted)
    ELSE CleanLoop(Tail(elems), Append(out, Head(elems)), rooted)

\* strings.Join(elems, "/")
RECURSIVE JoinSlash(_)
JoinSlash(elems) ==
    IF elems = <<>> THEN <<>>
    ELSE IF Len(elems) = 1 THEN Head(elems)
    ELSE Head(elems) \o << 47 >> \o JoinSlash(Tail(elems))

\* path.Clean(p): the shortest path name equivalent to p; "." for an empty one
Clean(p) ==
    CHOOSE res \in
      {IF out = <<>> THEN << 46 >> ELSE out :
         out \in {(IF p # <<>> /\ p[1] = 47 THEN << 47 >> ELSE <<>>)
                  \o JoinSlash(CleanLoop(FieldsFunc(p, <<>>, {47}), <<>>,
                                         p # <<>> /\ p[1] = 47))}} : TRUE

\* isSlashRune: '/' and '\'
isSlashRune == {47, 92}

\* containsDotDot(v): v holds ".." and one of its fields between slash runes
\* is ".."
containsDotDot(v) ==
    /\ \E i \in 1..(Len(v) - 1) : v[i] = 46 /\ v[i + 1] = 46
    /\ \E i \in DOMAIN FieldsFunc(v, <<>>, isSlashRune) :
         FieldsFunc(v, <<>>, isSlashRune)[i] = << 46, 46 >>

\* App.serve(ctx, p, w, req): [clean, reply, handed]. A request that fails
\* app.auth gets the 401 of basic auth. WriteHeader(500) and the body "Invalid
\* URL path" are written for a path with "..", and serve goes on: to the
\* proxy, to the Lua app or to handle404, whose WriteHeader comes too late to
\* change the status and whose body "Not Found" follows what was written
serve(p, kind, authed) ==
    IF ~authed
    THEN [clean |-> <<>>, handed |-> "none", reply |-> [NoReply EXCEPT !.status = 401]]
    ELSE CHOOSE res \in
      {[clean |-> c,
        handed |-> IF kind = "none" THEN "none" ELSE kind,
        reply |-> [NoReply EXCEPT
                     !.status = IF containsDotDot(c) THEN 500
                                ELSE IF kind = "none" THEN 404 ELSE 0,
                     !.body = (IF containsDotDot(c) THEN << 73, 110, 118, 97, 108, 105, 100, 32, 85, 82, 76, 32, 112, 97, 116, 104 >> ELSE <<>>)
                              \o (IF kind = "none" THEN << 78, 111, 116, 32, 70, 111, 117, 110, 100 >> ELSE <<>>)]] :
         c \in {Clean(p)}} : TRUE

\* appHandler or subdomainHandler receives a request for the path p of an
\* App of the given kind
AppRequest(p, kind, authed) ==
    /\ app = NoApp
    /\ app' = [NoApp EXCEPT !.path = p, !.kind = kind, !.authed = authed]
    /\ UNCHANGED << ftx, pl, chanVars, writerVars, treeVars, adminVars, snappyCompression,
                    disk, n, current, size, files, index, indexN, mutex, pc, hash, data,
                    blobPos, f, ret, rolledFrom, budget, acked, expect, faulty >>

\* the handler calls app.serve on the request
AppServe ==
    /\ app.path # <<>>
    /\ ~app.served
    /\ \E res \in {serve(app.path, app.kind, app.authed)} :
         app' = [app EXCEPT !.served = TRUE, !.clean = res.clean, !.reply = res.reply,
                            !.handed = res.handed]
    /\ UNCHANGED << ftx, pl, chanVars, writerVars, treeVars, adminVars, snappyCompression,
                    disk, n, current, size, files, index, indexN, mutex, pc, hash, data,
                    blobPos, f, ret, rolledFrom, budget, acked, expect, faulty >>

NextApp ==
    \/ \E p \in AppPaths, kind \in AppKinds, authed \in BOOLEAN : AppRequest(p, kind, authed)
    \/ AppServe

SpecApp == InitFront /\ [][NextApp]_vars

\* C39: a request whose cleaned path has a ".." element between '/' or '\'
\* is answered with the error status and is handed neither to the reverse
\* proxy nor to the Lua app.
C39_DotDotIsNeverHandedOn ==
    (app.served /\ app.authed /\ containsDotDot(Clean(app.path))) =>
        /\ app.handed = "none"
        /\ app.reply.status = 500
        /\ app.reply.body = << 73, 110, 118, 97, 108, 105, 100, 32, 85, 82, 76, 32, 112, 97, 116, 104 >>

(***************************************************************************)
(* client2/client.go: the client BlobStore in pipeline mode. One goroutine *)
(* calls ProcessBlobs, Put and Stop; the workers run processBlobs. Workers *)
(* are alike, so are blobs: the model counts them.                         *)
(***************************************************************************)
\* the Put calls of a behaviour in pipeline mode
MaxPipePuts == 26

\* the Put calls made before ProcessBlobs, by number
DirectPuts == {1}

\* the goroutines ProcessBlobs starts
Workers == 25

\* ProcessBlobs: the workers are started, each waiting on bs.blobs, and
\* bs.pipeline is set
ProcessBlobs ==
    /\ ~pl.crashed /\ pl.pc = "idle" /\ ~pl.pipeline
    /\ pl' = [pl EXCEPT !.pipeline = TRUE]
    /\ UNCHANGED << ftx, app, chanVars, writerVars, treeVars, adminVars, snappyCompression,
                    disk, n, current, size, files, index, indexN, mutex, pc, hash, data,
                    blobPos, f, ret, rolledFrom, budget, acked, expect, faulty >>

\* Put(hash, blob): in pipeline mode wg.Add(1), then the send on bs.blobs;
\* else bs.put uploads the blob and Put returns
ClientPut ==
    /\ ~pl.crashed /\ pl.pc \in {"idle", "stopped"}
    /\ IF pl.pipeline THEN pl.calls < MaxPipePuts ELSE pl.direct + 1 \in DirectPuts
    /\ pl' = IF pl.pipeline
             THEN [pl EXCEPT !.calls = @ + 1, !.wg = @ + 1, !.pc = "send"]
             ELSE [pl EXCEPT !.direct = @ + 1, !.stored = @ + 1, !.pc = "idle"]
    /\ UNCHANGED << ftx, app, chanVars, writerVars, treeVars, adminVars, snappyCompression,
                    disk, n, current, size, files, index, indexN, mutex, pc, hash, data,
                    blobPos, f, ret, rolledFrom, budget, acked, expect, faulty >>

\* Put outside pipeline mode: bs.put fails and Put returns its error
ClientPutFail ==
    /\ ~pl.crashed /\ pl.pc \in {"idle", "stopped"}
    /\ ~pl.pipeline
    /\ pl.direct + 1 \in DirectPuts
    /\ pl' = [pl EXCEPT !.direct = @ + 1, !.pc = "idle"]
    /\ UNCHANGED << ftx, app, chanVars, writerVars, treeVars, adminVars, snappyCompression,
                    disk, n, current, size, files, index, indexN, mutex, pc, hash, data,
                    blobPos, f, ret, rolledFrom, budget, acked, expect, faulty >>

\* bs.blobs <- blob meets the receive of a worker waiting in the range loop:
\* the channel has no buffer; Put returns nil and the worker enters bs.put
ClientSend ==
    /\ ~pl.crashed /\ pl.pc = "send"
    /\ pl.uploading + pl.finishing < Workers
    /\ pl' = [pl EXCEPT !.pc = "idle", !.returned = @ + 1, !.taken = @ + 1,
                        !.uploading = @ + 1]
    /\ UNCHANGED << ftx, app, chanVars, writerVars, treeVars, adminVars, snappyCompression,
                    disk, n, current, size, files, index, indexN, mutex, pc, hash, data,
                    blobPos, f, ret, rolledFrom, budget, acked, expect, faulty >>

\* processBlobs: bs.put returns nil, the server has stored the blob
WorkerPut ==
    /\ ~pl.crashed /\ pl.uploading > 0
    /\ pl' = [pl EXCEPT !.uploading = @ - 1, !.finishing = @ + 1, !.uploaded = @ + 1]
    /\ UNCHANGED << ftx, app, chanVars, writerVars, treeVars, adminVars, snappyCompression,
                    disk, n, current, size, files, index, indexN, mutex, pc, hash, data,
                    blobPos, f, ret, rolledFrom, budget, acked, expect, faulty >>

\* processBlobs: bs.put returns an error, the worker panics and the process
\* ends
WorkerPutFail ==
    /\ ~pl.crashed /\ pl.uploading > 0
    /\ pl' = [pl EXCEPT !.crashed = TRUE]
    /\ UNCHANGED << ftx, app, chanVars, writerVars, treeVars, adminVars, snappyCompression,
                    disk, n, current, size, files, index, indexN, mutex, pc, hash, data,
                    blobPos, f, ret, rolledFrom, budget, acked, expect, faulty >>

\* processBlobs: bs.wg.Done() after the upload
WorkerDone ==
    /\ ~pl.crashed /\ pl.finishing > 0
    /\ pl' = [pl EXCEPT !.finishing = @ - 1, !.wg = @ - 1]
    /\ UNCHANGED << ftx, app, chanVars, writerVars, treeVars, adminVars, snappyCompression,
                    disk, n, current, size, files, index, indexN, mutex, pc, hash, data,
                    blobPos, f, ret, rolledFrom, budget, acked, expect, faulty >>

\* Stop is called: bs.wg.Wait() begins
ClientStop ==
    /\ ~pl.crashed /\ pl.pc \in {"idle", "stopped"}
    /\ pl' = [pl EXCEPT !.pc = "wait"]
    /\ UNCHANGED << ftx, app, chanVars, writerVars, treeVars, adminVars, snappyCompression,
                    disk, n, current, size, files, index, indexN, mutex, pc, hash, data,
                    blobPos, f, ret, rolledFrom, budget, acked, expect, faulty >>

\* a Stop that returns whatever the counter is
StopWithoutWait ==
    /\ ~pl.crashed /\ pl.pc = "wait"
    /\ pl' = [pl EXCEPT !.pc = "stopped"]
    /\ UNCHANGED << ftx, app, chanVars, writerVars, treeVars, adminVars, snappyCompression,
                    disk, n, current, size, files, index, indexN, mutex, pc, hash, data,
                    blobPos, f, ret, rolledFrom, budget, acked, expect, faulty >>

\* bs.wg.Wait() returns when the counter is zero, and Stop with it
ClientStopReturn ==
    /\ ~pl.crashed /\ pl.pc = "wait"
    /\ pl.wg = 0
    /\ pl' = [pl EXCEPT !.pc = "stopped"]
    /\ UNCHANGED << ftx, app, chanVars, writerVars, treeVars, adminVars, snappyCompression,
                    disk, n, current, size, files, index, indexN, mutex, pc, hash, data,
                    blobPos, f, ret, rolledFrom, budget, acked, expect, faulty >>

NextPipe ==
    \/ ProcessBlobs
    \/ ClientPut
    \/ ClientPutFail
    \/ ClientSend
    \/ WorkerPut
    \/ WorkerPutFail
    \/ WorkerDone
    \/ ClientStop
    \/ ClientStopReturn

SpecPipe == InitFront /\ [][NextPipe]_vars

\* C38: in pipeline mode, when Stop has returned every blob of a Put that
\* returned before Stop was called has been uploaded; at most 25 uploads are
\* in flight; a Put has not returned before a worker took its blob.
C38_StopWaitsForUploads ==
    /\ pl.pc = "stopped" => (pl.uploaded = pl.returned /\ pl.uploading = 0)
    /\ pl.uploading <= 25
    /\ pl.returned <= pl.taken

\* Stop has returned after more Puts than there are workers
C38_StoppedAfterManyPuts ==
    /\ pl.pc = "stopped"
    /\ pl.pipeline
    /\ pl.returned > Workers

====
